---- MODULE Spec2Model ----
(***************************************************************************)
(* Double-top pattern detection (perpscreener): the ATR calculator, the    *)
(* swing detector, the per-coin DoubleTopDetector state machine and the    *)
(* MonitorService that feeds it.                                           *)
(*                                                                         *)
(* Numbers.  Prices are f64 in the source; here they are integers and      *)
(* every comparison of the source is done exactly, by cross-multiplying.   *)
(*   - percentages of the configuration are kept in tenths of a percent    *)
(*     (peak_tolerance 1.5 is 15), ATR multiples in tenths (rev_atr 1.0 is *)
(*     10, breakdown_buffer 0.3 is 3);                                     *)
(*   - an ATR value is the fraction num/den.                               *)
(* Floating-point rounding is not modelled.                                *)
(*                                                                         *)
(* Option<T> is a sequence: << >> is None, <<x>> is Some(x).               *)
(***************************************************************************)
EXTENDS Integers, Sequences, FiniteSets, TLC

\* ---------------------------------------------------------------- options
None == << >>
Some(x) == << x >>
IsSome(o) == o # << >>
Unwrap(o) == o[1]

Abs(x) == IF x < 0 THEN 0 - x ELSE x
MinOf(a, b) == IF a < b THEN a ELSE b
MaxOf(a, b) == IF a > b THEN a ELSE b

RECURSIVE SumSeq(_)
SumSeq(s) == IF s = << >> THEN 0 ELSE Head(s) + SumSeq(Tail(s))

\* ------------------------------------------------- DoubleTopConfig (floats)
\* Default values of DoubleTopConfig, percentages in tenths of a percent and
\* ATR multiples in tenths.
peak_tolerance == 15
min_pullback_pct == 20
min_pattern_height == 20
approach_threshold == 10
rev_atr == 10
breakdown_buffer == 3
peak_fail_pct == 15

\* ------------------------------------------------ DoubleTopConfig (counts)
\* The candle counts of the configuration, scaled down for checking.
warmup_candles == 2
history_window == 3
max_peak_distance == 4
atr_period == 2
trend_lookback == 1

\* Candles fed to one detector in a run of DetectorSpec and of NecklineSpec.
MaxCandles == 7
MaxDeepCandles == 7

\* Calls of SwingDetector::update in a run of SwingSpec.
MaxSwingCalls == 5

\* Calls of process_candle in a run of GateSpec.
MaxGateCandles == 4

\* Calls of process_candle in a run of DistanceSpec.
MaxDistanceCandles == 9

\* The longest period of an AtrCalculator driven directly, and the calls of
\* its update in a run of AtrSpec.
MaxAtrPeriod == 3

MaxAtrCalls == 4

\* Steady-state cycles in a run of MonitorSpec.
MaxCycles == 2

\* Steady-state cycles in a run of GapSpec.
MaxGapCycles == 5

\* Steady-state cycles in a run of FeedSpec.
MaxFeedCycles == 3

\* The capacity of the broadcast channel (16 in main), scaled down.
ChannelCapacity == 2

\* The capacity of a chart stream's channel (16 in chart_stream), scaled
\* down, and the ticks of its ticker followed.
ChartCapacity == 2
MaxChartTicks == 4

\* The longest candle list handed to normalize_candles.
MaxNormCandles == 2

\* ------------------------------------------------------------------ candles
\* The price levels candles are drawn from.  With peak1 = 10000: 9800 is a
\* 2% pullback, 9600 a lower trough or a close below the neckline; 10151 is
\* above the 1.5% fail level (10150) and still within the 1.5% mean-relative
\* peak tolerance; 9800 as a second peak is not.
Levels == {9600, 9800, 10000}
Spike == {10151}
Prices == Levels \cup Spike

\* A candle as the detector reads it: high, low, close (Candle of
\* services::hyperliquid; open, volume and num_trades are not read by it).
\* Every shape over Levels, and the candle that spikes from 9800 to 10151 and
\* closes on its low.
Candles == { c \in [high : Prices, low : Levels, close : Levels] :
               /\ c.low <= c.close /\ c.close <= c.high
               /\ c.high \in Spike => (c.close = c.low /\ c.low = 9800) }

\* A deeper range, one level more below the peak: a neckline can be lowered
\* (9800 to 9600) and still be broken (9400).  Candles close on their high, and
\* one candle falls from 10000 to close on its low, 9800.
DeepLevels == {9400, 9600, 9800, 10000}
DeepCandles == { c \in [high : DeepLevels, low : DeepLevels, close : DeepLevels] :
                   /\ c.low <= c.high /\ c.close \in {c.low, c.high}
                   /\ c.close < c.high => (c.high = 10000 /\ c.low = 9800) }

\* Few candles for long runs: flat ones, the rise to the peak, the fall from
\* it and the pullback.
DistanceCandles ==
    { [high |-> 9600, low |-> 9600, close |-> 9600],
      [high |-> 9800, low |-> 9800, close |-> 9800],
      [high |-> 10000, low |-> 9600, close |-> 10000],
      [high |-> 10000, low |-> 9800, close |-> 9800],
      [high |-> 9800, low |-> 9600, close |-> 9600] }

\* Candles for the calculator driven directly: the three of
\* test_atr_calculation, and two that open away from the close before them.
AtrCandles ==
    { [high |-> 102, low |-> 98, close |-> 100],
      [high |-> 104, low |-> 99, close |-> 102],
      [high |-> 103, low |-> 100, close |-> 101],
      [high |-> 110, low |-> 108, close |-> 109],
      [high |-> 95, low |-> 94, close |-> 94] }

\* Pairs of peak prices around the tolerance, and the tolerances (in tenths of
\* a percent) they are compared under.
MatchPrices == {1, 9800, 9850, 9900, 9950, 10000, 10100, 10151, 10200}
Tolerances == {0, peak_tolerance, 2 * peak_tolerance}

\* --------------------------------------------------------------- f64::MAX
F64_MAX == 2147483647

\* ------------------------------------------------------------ AtrCalculator
\* Fault variant of true_range: the close before the candle is not looked at.
true_range_HighLowOnly(a, candle) == candle.high - candle.low

AtrNew(period) == [period |-> period, values |-> << >>, prev_close |-> None]

true_range(a, candle) ==
    LET hl == candle.high - candle.low IN
    IF IsSome(a.prev_close)
    THEN LET pc  == Unwrap(a.prev_close)
             hpc == Abs(candle.high - pc)
             lpc == Abs(candle.low - pc)
         IN  MaxOf(MaxOf(hl, hpc), lpc)
    ELSE hl

\* AtrCalculator::update: the new calculator and the returned Option<f64>, the
\* value as the fraction num/den.
AtrUpdate(a, candle) ==
    LET tr == true_range(a, candle)
        a1 == [a EXCEPT !.prev_close = Some(candle.close)]
    IN
    IF Len(a1.values) < a1.period
    THEN LET vs == Append(a1.values, tr) IN
         [atr |-> [a1 EXCEPT !.values = vs],
          out |-> IF Len(vs) = a1.period
                  THEN Some([num |-> SumSeq(vs), den |-> a1.period])
                  ELSE None]
    ELSE \* prev_atr = sum(values)/period; new = (prev_atr*(period-1) + tr)/period
         [atr |-> [a1 EXCEPT !.values = Append(Tail(a1.values), tr)],
          out |-> Some([num |-> SumSeq(a1.values) * (a1.period - 1) + tr * a1.period,
                        den |-> a1.period * a1.period])]

\* update with period 0 takes the smoothing branch at once (0 < 0 is false),
\* where period - 1 overflows in a debug build and values.remove(0) is called
\* on the empty Vec in any build: it panics.
AtrUpdatePanics(a) == a.period = 0

\* ------------------------------------------------------------ SwingDetector
\* swing_high_idx, swing_low_idx and candle_idx are written and never read;
\* they are left out.
SwingNew(rev_atr_mult) ==
    [rev_atr_mult |-> rev_atr_mult, trend |-> "None",
     swing_high |-> 0, swing_low |-> F64_MAX]

\* x >= rev_atr_mult * atr, with rev_atr_mult in tenths and atr = num/den.
ReachesRev(x, mult, atr) == x * 10 * atr.den >= mult * atr.num

\* Fault variant of SwingUpdate: a confirmed peak leaves the swing low as it
\* was.
SwingUpdate_KeepsLow(s, candle, atr) ==
    IF s.trend = "None"
    THEN [swing |-> [s EXCEPT !.swing_high = candle.high,
                              !.swing_low = candle.low,
                              !.trend = "Up"],
          out |-> None]
    ELSE IF s.trend = "Up"
    THEN LET hi == IF candle.high > s.swing_high THEN candle.high ELSE s.swing_high IN
         IF ReachesRev(hi - candle.low, s.rev_atr_mult, atr)
         THEN [swing |-> [s EXCEPT !.swing_high = hi, !.trend = "Down"],
               out |-> Some([price |-> hi, is_peak |-> TRUE])]
         ELSE [swing |-> [s EXCEPT !.swing_high = hi], out |-> None]
    ELSE LET lo == IF candle.low < s.swing_low THEN candle.low ELSE s.swing_low IN
         IF ReachesRev(candle.high - lo, s.rev_atr_mult, atr)
         THEN [swing |-> [s EXCEPT !.swing_low = lo, !.trend = "Up",
                                   !.swing_high = candle.high],
               out |-> Some([price |-> lo, is_peak |-> FALSE])]
         ELSE [swing |-> [s EXCEPT !.swing_low = lo], out |-> None]

\* Fault variant of SwingUpdate: a confirmed peak does not flip the trend.
SwingUpdate_NoFlip(s, candle, atr) ==
    IF s.trend = "None"
    THEN [swing |-> [s EXCEPT !.swing_high = candle.high,
                              !.swing_low = candle.low,
                              !.trend = "Up"],
          out |-> None]
    ELSE IF s.trend = "Up"
    THEN LET hi == IF candle.high > s.swing_high THEN candle.high ELSE s.swing_high IN
         IF ReachesRev(hi - candle.low, s.rev_atr_mult, atr)
         THEN [swing |-> [s EXCEPT !.swing_high = hi, !.swing_low = candle.low],
               out |-> Some([price |-> hi, is_peak |-> TRUE])]
         ELSE [swing |-> [s EXCEPT !.swing_high = hi], out |-> None]
    ELSE LET lo == IF candle.low < s.swing_low THEN candle.low ELSE s.swing_low IN
         IF ReachesRev(candle.high - lo, s.rev_atr_mult, atr)
         THEN [swing |-> [s EXCEPT !.swing_low = lo, !.trend = "Up",
                                   !.swing_high = candle.high],
               out |-> Some([price |-> lo, is_peak |-> FALSE])]
         ELSE [swing |-> [s EXCEPT !.swing_low = lo], out |-> None]

SwingUpdate(s, candle, atr) ==
    IF s.trend = "None"
    THEN [swing |-> [s EXCEPT !.swing_high = candle.high,
                              !.swing_low = candle.low,
                              !.trend = "Up"],
          out |-> None]
    ELSE IF s.trend = "Up"
    THEN LET hi == IF candle.high > s.swing_high THEN candle.high ELSE s.swing_high IN
         IF ReachesRev(hi - candle.low, s.rev_atr_mult, atr)
         THEN [swing |-> [s EXCEPT !.swing_high = hi, !.trend = "Down",
                                   !.swing_low = candle.low],
               out |-> Some([price |-> hi, is_peak |-> TRUE])]
         ELSE [swing |-> [s EXCEPT !.swing_high = hi], out |-> None]
    ELSE LET lo == IF candle.low < s.swing_low THEN candle.low ELSE s.swing_low IN
         IF ReachesRev(candle.high - lo, s.rev_atr_mult, atr)
         THEN [swing |-> [s EXCEPT !.swing_low = lo, !.trend = "Up",
                                   !.swing_high = candle.high],
               out |-> Some([price |-> lo, is_peak |-> FALSE])]
         ELSE [swing |-> [s EXCEPT !.swing_low = lo], out |-> None]

\* -------------------------------------------------------- DoubleTopDetector
DetectorNew(coin) ==
    [coin |-> coin, state |-> "Watching",
     atr |-> AtrNew(atr_period), swing |-> SwingNew(rev_atr),
     candles |-> << >>, candle_count |-> 0,
     peak1 |-> None, trough_low |-> None, peak2 |-> None,
     early_warning_sent |-> FALSE]

\* Fault variant of PeaksMatchWithin: the difference is measured against the
\* first price instead of the mean of the two.
PeaksMatchWithin_OfFirst(peak1, peak2, tolerance) ==
    Abs(peak1 - peak2) * 1000 <= tolerance * peak1

\* |peak1 - peak2| / ((peak1 + peak2)/2) * 100 <= tolerance, the tolerance in
\* tenths of a percent.
PeaksMatchWithin(peak1, peak2, tolerance) ==
    Abs(peak1 - peak2) * 2000 <= tolerance * (peak1 + peak2)

peaks_match(peak1, peak2) == PeaksMatchWithin(peak1, peak2, peak_tolerance)

\* high > peak1 * (1 + peak_fail_pct/100)
AboveFailLevel(high, peak1) == high * 1000 > peak1 * (1000 + peak_fail_pct)

\* (peak1 - low) / peak1 * 100 >= pct
DropAtLeast(peak1, low, pct) == (peak1 - low) * 1000 >= pct * peak1

\* Fault variant of reset_with_peak: early_warning_sent is not cleared.
reset_with_peak_KeepsWarned(d, swing_point) ==
    [d EXCEPT !.peak1 = Some([price |-> swing_point.price,
                              candle_idx |-> d.candle_count]),
              !.state = "PeakFound",
              !.trough_low = None,
              !.peak2 = None]

\* Fault variant of reset_with_peak: the trough of the pattern before is kept.
reset_with_peak_KeepsTrough(d, swing_point) ==
    [d EXCEPT !.peak1 = Some([price |-> swing_point.price,
                              candle_idx |-> d.candle_count]),
              !.state = "PeakFound",
              !.peak2 = None,
              !.early_warning_sent = FALSE]

reset_with_peak(d, swing_point) ==
    [d EXCEPT !.peak1 = Some([price |-> swing_point.price,
                              candle_idx |-> d.candle_count]),
              !.state = "PeakFound",
              !.trough_low = None,
              !.peak2 = None,
              !.early_warning_sent = FALSE]

\* Fault variant of HandleTrough: the "only if it's lower" test is dropped.
HandleTrough_NoLowerCheck(d, swing_point) ==
    IF IsSome(d.peak1)
       /\ DropAtLeast(Unwrap(d.peak1).price, swing_point.price, min_pullback_pct)
    THEN [d EXCEPT !.trough_low = Some(swing_point.price),
                   !.state = IF d.state = "PeakFound" THEN "TroughFound" ELSE d.state]
    ELSE d

\* Fault variant of HandleTrough: the pullback is not tested.
HandleTrough_NoPullback(d, swing_point) ==
    IF IsSome(d.peak1)
       /\ (IsSome(d.trough_low) => swing_point.price < Unwrap(d.trough_low))
    THEN [d EXCEPT !.trough_low = Some(swing_point.price),
                   !.state = IF d.state = "PeakFound" THEN "TroughFound" ELSE d.state]
    ELSE d

\* The PeakFound | TroughFound | Forming arm, a trough swing point.
HandleTrough(d, swing_point) ==
    IF IsSome(d.peak1)
       /\ DropAtLeast(Unwrap(d.peak1).price, swing_point.price, min_pullback_pct)
       /\ (IsSome(d.trough_low) => swing_point.price < Unwrap(d.trough_low))
    THEN [d EXCEPT !.trough_low = Some(swing_point.price),
                   !.state = IF d.state = "PeakFound" THEN "TroughFound" ELSE d.state]
    ELSE d

\* Fault variant of HandlePeak2: in PeakFound a higher peak swing point takes
\* peak1's place.
HandlePeak2_HigherReplaces(d, swing_point) ==
    IF d.state \in {"TroughFound", "Forming"}
       /\ IsSome(d.peak1)
       /\ peaks_match(Unwrap(d.peak1).price, swing_point.price)
    THEN [d EXCEPT !.peak2 = Some([price |-> swing_point.price,
                                   candle_idx |-> d.candle_count])]
    ELSE IF d.state = "PeakFound" /\ IsSome(d.peak1)
            /\ swing_point.price > Unwrap(d.peak1).price
    THEN [d EXCEPT !.peak1 = Some([price |-> swing_point.price,
                                   candle_idx |-> d.candle_count])]
    ELSE d

\* Fault variant of HandlePeak2: any peak swing point becomes peak2.
HandlePeak2_AnyPeak(d, swing_point) ==
    IF d.state \in {"TroughFound", "Forming"} /\ IsSome(d.peak1)
    THEN [d EXCEPT !.peak2 = Some([price |-> swing_point.price,
                                   candle_idx |-> d.candle_count])]
    ELSE d

\* The PeakFound | TroughFound | Forming arm, a peak swing point.
HandlePeak2(d, swing_point) ==
    IF d.state \in {"TroughFound", "Forming"}
       /\ IsSome(d.peak1)
       /\ peaks_match(Unwrap(d.peak1).price, swing_point.price)
    THEN [d EXCEPT !.peak2 = Some([price |-> swing_point.price,
                                   candle_idx |-> d.candle_count])]
    ELSE d

handle_swing_point(d, swing_point) ==
    IF d.state = "Watching"
    THEN IF swing_point.is_peak
         THEN [d EXCEPT !.peak1 = Some([price |-> swing_point.price,
                                        candle_idx |-> d.candle_count]),
                        !.state = "PeakFound",
                        !.trough_low = None,
                        !.peak2 = None,
                        !.early_warning_sent = FALSE]
         ELSE d
    ELSE IF d.state \in {"PeakFound", "TroughFound", "Forming"}
    THEN IF ~swing_point.is_peak
         THEN HandleTrough(d, swing_point)
         ELSE HandlePeak2(d, swing_point)
    ELSE \* Confirmed | Invalidated
         IF swing_point.is_peak THEN reset_with_peak(d, swing_point) ELSE d

\* Fault variant of check_early_warning: the uptrend test is missing.
check_early_warning_NoTrend(d, candle) ==
    IF ~IsSome(d.peak1) \/ ~IsSome(d.trough_low) THEN None
    ELSE
    LET peak1  == Unwrap(d.peak1)
        trough == Unwrap(d.trough_low)
    IN
    IF ~DropAtLeast(peak1.price, trough, min_pattern_height) THEN None
    ELSE IF Abs(peak1.price - candle.close) * 1000 > approach_threshold * peak1.price
    THEN None
    ELSE IF AboveFailLevel(candle.high, peak1.price) THEN None
    ELSE Some([kind |-> "EarlyWarning", coin |-> d.coin,
               peak_price |-> peak1.price, current_price |-> candle.close])

check_early_warning(d, candle) ==
    IF ~IsSome(d.peak1) \/ ~IsSome(d.trough_low) THEN None
    ELSE
    LET peak1  == Unwrap(d.peak1)
        trough == Unwrap(d.trough_low)
        n      == Len(d.candles)
    IN
    IF ~DropAtLeast(peak1.price, trough, min_pattern_height) THEN None
    ELSE IF Abs(peak1.price - candle.close) * 1000 > approach_threshold * peak1.price
    THEN None
    ELSE IF n > trend_lookback /\ candle.close <= d.candles[n - trend_lookback].close
    THEN None
    ELSE IF AboveFailLevel(candle.high, peak1.price) THEN None
    ELSE Some([kind |-> "EarlyWarning", coin |-> d.coin,
               peak_price |-> peak1.price, current_price |-> candle.close])

\* close < trough - breakdown_buffer * atr
BelowBreakLevel(close, trough, atr) ==
    (trough - close) * 10 * atr.den > breakdown_buffer * atr.num

\* Fault variant of check_confirmation: the breakdown is tested on the
\* candle's low (the wick) instead of its close.
check_confirmation_OnLow(d, candle, atr) ==
    IF ~IsSome(d.peak1) \/ ~IsSome(d.trough_low) \/ ~IsSome(d.peak2) THEN None
    ELSE
    LET peak1  == Unwrap(d.peak1)
        trough == Unwrap(d.trough_low)
        peak2  == Unwrap(d.peak2)
    IN
    IF ~peaks_match(peak1.price, peak2.price) THEN None
    ELSE IF ~DropAtLeast(peak1.price, trough, min_pattern_height) THEN None
    ELSE IF BelowBreakLevel(candle.low, trough, atr)
    THEN Some([kind |-> "Confirmation", coin |-> d.coin,
               neckline_price |-> trough, break_price |-> candle.close])
    ELSE None

check_confirmation(d, candle, atr) ==
    IF ~IsSome(d.peak1) \/ ~IsSome(d.trough_low) \/ ~IsSome(d.peak2) THEN None
    ELSE
    LET peak1  == Unwrap(d.peak1)
        trough == Unwrap(d.trough_low)
        peak2  == Unwrap(d.peak2)
    IN
    IF ~peaks_match(peak1.price, peak2.price) THEN None
    ELSE IF ~DropAtLeast(peak1.price, trough, min_pattern_height) THEN None
    ELSE IF BelowBreakLevel(candle.close, trough, atr)
    THEN Some([kind |-> "Confirmation", coin |-> d.coin,
               neckline_price |-> trough, break_price |-> candle.close])
    ELSE None

\* Fault variant of Invalidation: the fail-level test is missing.
Invalidation_DistanceOnly(d, candle) ==
    IF ~IsSome(d.peak1) THEN "none"
    ELSE IF d.candle_count - Unwrap(d.peak1).candle_idx > max_peak_distance
    THEN "distance"
    ELSE "none"

\* Fault variant of Invalidation: the distance test is missing.
Invalidation_FailLevelOnly(d, candle) ==
    IF ~IsSome(d.peak1) THEN "none"
    ELSE IF AboveFailLevel(candle.high, Unwrap(d.peak1).price) THEN "fail_level"
    ELSE "none"

\* "Check for invalidation first": which of the two returns is taken.
Invalidation(d, candle) ==
    IF ~IsSome(d.peak1) THEN "none"
    ELSE IF AboveFailLevel(candle.high, Unwrap(d.peak1).price) THEN "fail_level"
    ELSE IF d.candle_count - Unwrap(d.peak1).candle_idx > max_peak_distance
    THEN "distance"
    ELSE "none"

\* Fault variant of TightenNeckline: the neckline waits for swing points.
TightenNeckline_Never(d, candle) == d

\* Fault variant of TightenNeckline: the comparison is reversed.
TightenNeckline_Raises(d, candle) ==
    IF d.state \in {"TroughFound", "Forming"}
       /\ IsSome(d.trough_low)
       /\ candle.low > Unwrap(d.trough_low)
       /\ ~IsSome(d.peak2)
    THEN [d EXCEPT !.trough_low = Some(candle.low)]
    ELSE d

\* "Update trough_low if we're tracking and price makes new low"
TightenNeckline(d, candle) ==
    IF d.state \in {"TroughFound", "Forming"}
       /\ IsSome(d.trough_low)
       /\ candle.low < Unwrap(d.trough_low)
       /\ ~IsSome(d.peak2)
    THEN [d EXCEPT !.trough_low = Some(candle.low)]
    ELSE d

\* Fault variant of CheckAlerts: an early warning is returned without moving
\* to Forming and without setting early_warning_sent.
CheckAlerts_NoLatch(d, candle, atr) ==
    IF d.state = "TroughFound"
    THEN [det |-> d,
          alert |-> IF d.early_warning_sent THEN None ELSE check_early_warning(d, candle)]
    ELSE IF d.state = "Forming"
    THEN LET a == check_confirmation(d, candle, atr) IN
         IF IsSome(a)
         THEN [det |-> [d EXCEPT !.state = "Confirmed"], alert |-> a]
         ELSE [det |-> d, alert |-> None]
    ELSE [det |-> d, alert |-> None]

\* Fault variant of CheckAlerts: TroughFound too is checked for confirmation
\* when it returns no early warning.
CheckAlerts_ConfirmsUnwarned(d, candle, atr) ==
    IF d.state = "TroughFound"
    THEN LET a == IF d.early_warning_sent THEN None ELSE check_early_warning(d, candle)
             b == check_confirmation(d, candle, atr) IN
         IF IsSome(a)
         THEN [det |-> [d EXCEPT !.state = "Forming", !.early_warning_sent = TRUE],
               alert |-> a]
         ELSE IF IsSome(b)
         THEN [det |-> [d EXCEPT !.state = "Confirmed"], alert |-> b]
         ELSE [det |-> d, alert |-> None]
    ELSE IF d.state = "Forming"
    THEN LET a == check_confirmation(d, candle, atr) IN
         IF IsSome(a)
         THEN [det |-> [d EXCEPT !.state = "Confirmed"], alert |-> a]
         ELSE [det |-> d, alert |-> None]
    ELSE [det |-> d, alert |-> None]

\* The closing match of check_state_transitions.
CheckAlerts(d, candle, atr) ==
    IF d.state = "TroughFound"
    THEN LET a == IF d.early_warning_sent THEN None ELSE check_early_warning(d, candle) IN
         IF IsSome(a)
         THEN [det |-> [d EXCEPT !.state = "Forming", !.early_warning_sent = TRUE],
               alert |-> a]
         ELSE [det |-> d, alert |-> None]
    ELSE IF d.state = "Forming"
    THEN LET a == check_confirmation(d, candle, atr) IN
         IF IsSome(a)
         THEN [det |-> [d EXCEPT !.state = "Confirmed"], alert |-> a]
         ELSE [det |-> d, alert |-> None]
    ELSE [det |-> d, alert |-> None]

\* Fault variant of check_state_transitions: the alert checks run first, on
\* the neckline as it was, and invalidation and tightening after them.
check_state_transitions_AlertsFirst(d, candle, atr) ==
    LET r == CheckAlerts(d, candle, atr)
        inv == Invalidation(r.det, candle)
    IN  IF inv # "none"
        THEN [det |-> [r.det EXCEPT !.state = "Invalidated"], alert |-> r.alert,
              inval |-> inv]
        ELSE [det |-> TightenNeckline(r.det, candle), alert |-> r.alert,
              inval |-> "none"]

check_state_transitions(d, candle, atr) ==
    LET inv == Invalidation(d, candle) IN
    IF inv # "none"
    THEN [det |-> [d EXCEPT !.state = "Invalidated"], alert |-> None, inval |-> inv]
    ELSE LET r == CheckAlerts(TightenNeckline(d, candle), candle, atr) IN
         [det |-> r.det, alert |-> r.alert, inval |-> "none"]

\* Fault variant of PushWindow: past history_window the candle pushed is the
\* one dropped.
PushWindow_DropsNewest(w, candle) ==
    LET w1 == Append(w, [close |-> candle.close]) IN
    IF Len(w1) > history_window THEN SubSeq(w1, 1, history_window) ELSE w1

\* The rolling window: push_back, then pop_front past history_window.  The
\* source keeps whole candles; only their close is ever read back, and the
\* window keeps that field of each.
PushWindow(w, candle) ==
    LET w1 == Append(w, [close |-> candle.close]) IN
    IF Len(w1) > history_window THEN Tail(w1) ELSE w1

\* Fault variant of Gated: only the ATR value is waited for.
Gated_AtrOnly(d, atr) == ~IsSome(atr)

\* process_candle's two early returns: fewer than warmup_candles candles
\* counted, or no ATR value yet.
Gated(d, atr) == d.candle_count < warmup_candles \/ ~IsSome(atr)

\* process_candle: the detector after the call, the returned Option<Alert>, and
\* what the call computed on the way (the ATR value, the swing point, the
\* invalidation taken).
process_candle(d, candle) ==
    LET au == AtrUpdate(d.atr, candle)
        d1 == [d EXCEPT !.candle_count = d.candle_count + 1,
                        !.candles = PushWindow(d.candles, candle),
                        !.atr = au.atr]
    IN
    IF Gated(d1, au.out)
    THEN [det |-> d1, alert |-> None, atr |-> au.out, swing_point |-> None,
          inval |-> "none"]
    ELSE LET atr == Unwrap(au.out)
             su  == SwingUpdate(d1.swing, candle, atr)
             d2  == [d1 EXCEPT !.swing = su.swing]
             d3  == IF IsSome(su.out) THEN handle_swing_point(d2, Unwrap(su.out)) ELSE d2
             r   == check_state_transitions(d3, candle, atr)
         IN  [det |-> r.det, alert |-> r.alert, atr |-> au.out,
              swing_point |-> su.out, inval |-> r.inval]

is_warmed_up(d) == d.candle_count >= warmup_candles
peak1_price(d) == IF IsSome(d.peak1) THEN Some(Unwrap(d.peak1).price) ELSE None
neckline_price(d) == d.trough_low
peak2_price(d) == IF IsSome(d.peak2) THEN Some(Unwrap(d.peak2).price) ELSE None

\* ------------------------------------------------------------ MonitorService
INTERVAL_MS == 60000

\* The instruments, and their order under String's cmp.
Coins == {"BTC", "ETH"}

CoinRank(coin) == IF coin = "BTC" THEN 1 ELSE 2

\* The wall clock moves in half intervals; the service starts at Now0.
ClockStep == INTERVAL_MS \div 2

Now0 == 5 * INTERVAL_MS

\* Minute k of the 1m series closes at k * INTERVAL_MS - 1.
CloseTimeOf(k) == k * INTERVAL_MS - 1

\* The market: the candle of an instrument at a minute.  The prices repeat
\* with period four and the two instruments are one minute out of phase.
MarketShapes ==
    << [high |-> 9600, low |-> 9600, close |-> 9600],
       [high |-> 10000, low |-> 9600, close |-> 9600],
       [high |-> 9800, low |-> 9600, close |-> 9800],
       [high |-> 9800, low |-> 9600, close |-> 9600] >>

MarketCandle(coin, k) ==
    LET sh == MarketShapes[((k + CoinRank(coin)) % Len(MarketShapes)) + 1]
    IN  [close_time |-> CloseTimeOf(k),
         high |-> sh.high, low |-> sh.low, close |-> sh.close]

\* The minutes a fetch made at time now may return: the two last minutes that
\* process_coin and warmup take as closed at now, and the one after them.
FetchMinutes(now) == LET n == now \div INTERVAL_MS IN (n - 2) .. n

RECURSIVE AscendingSeq(_)
\* The elements of a finite set of minutes as a sequence in ascending order.
AscendingSeq(ks) ==
    IF ks = {} THEN << >>
    ELSE LET k == CHOOSE x \in ks : \A y \in ks : x <= y
         IN  << k >> \o AscendingSeq(ks \ {k})

\* What fetch_candles and fetch_warmup_candles can return: an error, or the
\* candles of some of the recent minutes in ascending order of close time.
FetchResults(coin, now) ==
    { [ok |-> FALSE, candles |-> << >>] } \cup
    { [ok |-> TRUE,
       candles |-> [i \in 1 .. Cardinality(ks) |->
                       MarketCandle(coin, AscendingSeq(ks)[i])]] :
      ks \in SUBSET FetchMinutes(now) }

\* Minute k of the 1m series opens at (k - 1) * INTERVAL_MS.
OpenTimeOf(k) == (k - 1) * INTERVAL_MS

\* The intervals process_coin looks back when the coin has no watermark.
LOOKBACK_INTERVALS == 5

\* process_coin's start_time: the watermark, or now - INTERVAL_MS * 5.
RequestStart(wm, now) ==
    IF IsSome(wm) THEN Unwrap(wm) ELSE now - INTERVAL_MS * LOOKBACK_INTERVALS

\* fetch_warmup_candles' start_time.
WarmupStart(now) == now - warmup_candles * INTERVAL_MS

\* The minutes whose candle opens within [start_time, end_time].
MinutesIn(start_time, end_time) ==
    { k \in 1 .. (end_time \div INTERVAL_MS + 1) :
        start_time <= OpenTimeOf(k) /\ OpenTimeOf(k) <= end_time }

\* A fetch whose server is complete: an error, or every candle of the
\* requested range.
FullFetchResults(coin, start_time, end_time) ==
    { [ok |-> FALSE, candles |-> << >>] } \cup
    { [ok |-> TRUE,
       candles |-> LET ks == MinutesIn(start_time, end_time) IN
                   [i \in 1 .. Cardinality(ks) |->
                       MarketCandle(coin, AscendingSeq(ks)[i])]] }

\* The responses to a request for [start_time, end_time], by the kind of
\* server: "any" returns any of the recent candles or fails, "full" returns
\* every candle of the range or fails, "reliable" never fails.
Responses(server, coin, start_time, end_time) ==
    CASE server = "any"  -> FetchResults(coin, end_time)
      [] server = "full" -> FullFetchResults(coin, start_time, end_time)
      [] server = "reliable" ->
            { r \in FullFetchResults(coin, start_time, end_time) : r.ok }

\* The time a warmup fetch can take.
FetchLatencies(server) == IF server = "any" THEN {0, ClockStep} ELSE {0}

\* Fault variant of IsClosed: the interval is not subtracted.
IsClosed_NoMargin(candle, now) == candle.close_time <= now

\* candle.close_time <= now - INTERVAL_MS
IsClosed(candle, now) == candle.close_time <= now - INTERVAL_MS

\* Fault variant of IsUnseenClosed: the watermark is not consulted.
IsUnseenClosed_NoWatermark(candle, now, last_time) == IsClosed(candle, now)

\* candle.close_time <= now - INTERVAL_MS && candle.close_time > last_time
IsUnseenClosed(candle, now, last_time) ==
    IsClosed(candle, now) /\ candle.close_time > last_time

RECURSIVE FeedCandles(_, _)
\* detector.process_candle on each candle in order, collecting the alerts.
FeedCandles(d, cs) ==
    IF cs = << >> THEN [det |-> d, alerts |-> << >>]
    ELSE LET r    == process_candle(d, Head(cs))
             rest == FeedCandles(r.det, Tail(cs))
         IN  [det |-> rest.det,
              alerts |-> (IF IsSome(r.alert) THEN r.alert ELSE << >>)
                            \o rest.alerts]

CloseTimes(cs) == [i \in 1 .. Len(cs) |-> cs[i].close_time]

\* The body of warmup's loop for one instrument, given the fetch result and
\* the time read after it.  Returns the instrument's detector and watermark
\* and the close times of the candles fed.
WarmupCoinBody(d, wm, resp, now) ==
    IF ~resp.ok THEN [det |-> d, wm |-> wm, fed |-> << >>]
    ELSE LET feed == SelectSeq(resp.candles, LAMBDA c : IsClosed(c, now))
         IN  [det |-> FeedCandles(d, feed).det,
              wm  |-> IF feed = << >> THEN wm
                      ELSE Some(feed[Len(feed)].close_time),
              fed |-> CloseTimes(feed)]

\* process_coin, given the time read at its start and the fetch result.
\* last_time is read once before the loop; the watermark is written after
\* each candle fed, so it ends at the close time of the last one.
process_coin(d, wm, resp, now) ==
    IF ~resp.ok THEN [ok |-> FALSE, det |-> d, wm |-> wm, fed |-> << >>]
    ELSE LET last_time == IF IsSome(wm) THEN Unwrap(wm) ELSE 0
             feed == SelectSeq(resp.candles,
                               LAMBDA c : IsUnseenClosed(c, now, last_time))
         IN  [ok  |-> TRUE,
              det |-> FeedCandles(d, feed).det,
              wm  |-> IF feed = << >> THEN wm
                      ELSE Some(feed[Len(feed)].close_time),
              fed |-> CloseTimes(feed)]

\* Fault variant of RemainingCoins: an error ends the loop over the coins.
RemainingCoins_StopOnError(rest, coin, ok) ==
    IF ok THEN rest \ {coin} ELSE {}

\* The loop over the coins in run: process_coin's error is logged and the
\* loop goes on to the next coin.
RemainingCoins(rest, coin, ok) == rest \ {coin}

\* impl From<PatternState> for String
StateString(state) ==
    CASE state = "Watching"    -> "WATCHING"
      [] state = "PeakFound"   -> "PEAK_FOUND"
      [] state = "TroughFound" -> "TROUGH_FOUND"
      [] state = "Forming"     -> "FORMING"
      [] state = "Confirmed"   -> "CONFIRMED"
      [] state = "Invalidated" -> "INVALIDATED"

\* build_summary: the sentence chosen and the prices printed in it.
build_summary(state, peak1, neckline, warmed) ==
    IF ~warmed THEN << "warming up" >>
    ELSE CASE state = "Watching" -> << "watching for the first peak" >>
           [] state = "PeakFound" ->
                IF IsSome(peak1) THEN << "first peak found at", Unwrap(peak1) >>
                ELSE << "first peak found" >>
           [] state = "TroughFound" ->
                IF IsSome(peak1) /\ IsSome(neckline)
                THEN << "trough at after peak at", Unwrap(neckline), Unwrap(peak1) >>
                ELSE IF IsSome(peak1)
                THEN << "pullback detected after peak at", Unwrap(peak1) >>
                ELSE << "pullback detected" >>
           [] state = "Forming" ->
                IF IsSome(peak1) THEN << "approaching the first peak near", Unwrap(peak1) >>
                ELSE << "approaching the first peak" >>
           [] state = "Confirmed" ->
                IF IsSome(neckline) THEN << "confirmed; broke neckline near", Unwrap(neckline) >>
                ELSE << "confirmed" >>
           [] state = "Invalidated" ->
                IF IsSome(peak1) THEN << "invalidated after peak at", Unwrap(peak1) >>
                ELSE << "invalidated" >>

StatusOf(coin, d) ==
    [coin |-> coin,
     state |-> StateString(d.state),
     peak1_price |-> peak1_price(d),
     neckline_price |-> neckline_price(d),
     peak2_price |-> peak2_price(d),
     is_warmed_up |-> is_warmed_up(d),
     summary |-> build_summary(d.state, peak1_price(d), neckline_price(d),
                               is_warmed_up(d))]

\* Fault variant of SortByCoin: the list is left as built.
SortByCoin_Unsorted(statuses) == statuses

RECURSIVE SortByCoin(_)
\* statuses.sort_by(|a, b| a.coin.cmp(&b.coin))
SortByCoin(statuses) ==
    IF statuses = << >> THEN << >>
    ELSE LET i == CHOOSE i \in 1 .. Len(statuses) :
                     \A j \in 1 .. Len(statuses) :
                        CoinRank(statuses[i].coin) <= CoinRank(statuses[j].coin)
             rest == [j \in 1 .. Len(statuses) - 1 |->
                         IF j < i THEN statuses[j] ELSE statuses[j + 1]]
         IN  << statuses[i] >> \o SortByCoin(rest)

\* The orders in which a HashMap over the coins can be iterated.
CoinOrders ==
    { o \in [1 .. Cardinality(Coins) -> Coins] :
        \A i, j \in DOMAIN o : i # j => o[i] # o[j] }

\* ------------------------------------------- the broadcast channel and store
\* tokio::sync::broadcast: the channel keeps the last ChannelCapacity values
\* sent, each at its position in the order of sending; tail is the number of
\* values sent so far.
\* broadcast::channel: no value sent yet, and the one receiver the call
\* returns, which main keeps to its end as _receiver.
ChannelNew == [tail |-> 0, buf |-> << >>, rx_cnt |-> 1]

\* A channel whose creator dropped that receiver.
ChannelOrphan == [ChannelNew EXCEPT !.rx_cnt = 0]

\* Sender::send's result: Err(SendError) when no receiver is alive.
ChannelSendResult(ch) == IF ch.rx_cnt = 0 THEN "Err" ELSE "Ok"

\* Fault variant of ChannelSend: a full channel drops the value sent.
ChannelSend_DropNewest(ch, value) ==
    IF ch.rx_cnt = 0 THEN ch
    ELSE [ch EXCEPT
            !.tail = ch.tail + 1,
            !.buf = IF Len(ch.buf) >= ChannelCapacity THEN ch.buf
                    ELSE Append(ch.buf, [pos |-> ch.tail + 1, value |-> value])]

\* Sender::send: never waits; a full channel drops its oldest value, and
\* without a receiver the value is not kept.
ChannelSend(ch, value) ==
    IF ch.rx_cnt = 0 THEN ch
    ELSE LET b == Append(ch.buf, [pos |-> ch.tail + 1, value |-> value])
         IN  [ch EXCEPT !.tail = ch.tail + 1,
                        !.buf = IF Len(b) > ChannelCapacity THEN Tail(b) ELSE b]

\* Fault variant of IgnoreSendResult: a failed send ends the monitor task.
IgnoreSendResult_Propagates(next, result) ==
    IF result = "Err" THEN "stopped" ELSE next

\* update_shared_state's "let _ = ...send(snapshot)": where the task goes
\* next does not depend on the result.
IgnoreSendResult(next, result) == next

\* Sender::subscribe: the new receiver sees the values sent from now on.
ChannelSubscribe(ch) == ch.tail

\* Sender::subscribe, its effect on the channel: one more receiver.
ChannelAddReceiver(ch) == [ch EXCEPT !.rx_cnt = ch.rx_cnt + 1]

\* Receiver::recv for a receiver that has consumed the positions up to next:
\* nothing to receive, the value at next + 1, or Lagged with the receiver
\* moved to the oldest value kept.
ChannelRecv(ch, next) ==
    LET later == { i \in DOMAIN ch.buf : ch.buf[i].pos > next } IN
    IF later = {} THEN [kind |-> "empty", next |-> next]
    ELSE LET i == CHOOSE i \in later : \A j \in later : i <= j IN
         IF ch.buf[i].pos = next + 1
         THEN [kind |-> "value", next |-> next + 1]
         ELSE [kind |-> "lagged", next |-> ch.buf[i].pos - 1]

\* The clients of GET /double-top/stream.
Subscribers == {"s1", "s2"}

\* Fault variant of LoopDone: the loop is left after its first coin.
LoopDone_AfterFirst(rest) == rest # Coins

\* The loop over the coins, in warmup and in run, has finished.
LoopDone(rest) == rest = {}

\* Fault variant of WarmupReturn: a failed fetch fails warmup.
WarmupReturn_ErrOnFailure(result) ==
    IF \E c \in Coins : result[c] = "err" THEN "Err" ELSE "Ok"

\* warmup's return value: Ok(()), whatever the fetches returned.
WarmupReturn(result) == "Ok"

\* main, after warmup: an Err ends the monitor task, Ok goes on to run.
AfterWarmup(ret) == IF ret = "Ok" THEN "sleep" ELSE "stopped"

\* ====================================================================== state
VARIABLES
    det,      \* one DoubleTopDetector
    out,      \* the last process_candle call: its candle, its return value,
              \* and the ATR value, swing point and invalidation it computed
    hist,     \* history of the detector's run (see DetectorHist)
    sw,       \* one SwingDetector, driven directly
    swOut,    \* the return value of its last update
    swHist,   \* history of its run (see SwingHist)
    detectors,         \* MonitorService.detectors
    last_candle_time,  \* MonitorService.last_candle_time, the watermarks
    now,               \* the wall clock, in ms
    pc,                \* where the monitor task is: "warmup", "sleep", "cycle"
    todo,              \* the coins the current loop over the coins has left
    cycle,             \* steady-state cycles started
    patterns,          \* SharedPatternState.patterns
    published,         \* snapshots handed to the broadcaster
    fed,               \* per coin, the close times of the candles fed so far
    cyc,               \* history of the current pass (see PassStart, PassLog)
    chan,              \* the broadcast channel of SharedPatternState
    subs,              \* the clients of the snapshot stream
    send_result,       \* the result of the last broadcaster.send
    calc,          \* one AtrCalculator, driven directly
    calcOut,       \* the return value of its last update
    calcFed,       \* the candles passed to its update so far
    calcPanicked,  \* whether an update of it panicked
    pm,            \* one call of peaks_match each way round (see MatchInit)
    reads,         \* the GET /double-top requests (see StatusIdle)
    chart,         \* one GET /chart/stream request (see ChartIdle)
    norm           \* one call of normalize_candles (see NormIdle)

detVars == << det, out, hist >>
swVars == << sw, swOut, swHist >>
monVars == << detectors, last_candle_time, now, pc, todo, cycle, patterns,
              published, fed, cyc >>
feedVars == << chan, subs, send_result >>
atrVars == << calc, calcOut, calcFed, calcPanicked >>
matchVars == << pm >>
storeVars == << reads >>
chartVars == << chart >>
normVars == << norm >>
vars == << det, out, hist, sw, swOut, swHist, detectors, last_candle_time, now,
           pc, todo, cycle, patterns, published, fed, cyc, chan, subs,
           send_result,
           calc, calcOut, calcFed, calcPanicked, pm, reads,
           chart, norm >>

Coin == "BTC"

DetectorInit ==
    /\ det = DetectorNew(Coin)
    /\ out = [candle |-> None, alert |-> None, atr |-> None,
              swing_point |-> None, inval |-> "none"]
    /\ hist = [instances |-> 0, ew_instance |-> 0, ew_total |-> 0,
               min_trough |-> None, first_trough |-> None,
               prev_state |-> "Watching", prev_trough |-> None,
               recent |-> [age \in 1 .. history_window |-> 0]]

\* Whether the call that produced detector d assigned a new peak1: peak1
\* carries the index of the candle that set it, and candle_count grows with
\* every call.
AssignedPeak1(d) ==
    IsSome(d.peak1) /\ Unwrap(d.peak1).candle_idx = d.candle_count

IsAlert(a, kind) == IsSome(a) /\ Unwrap(a).kind = kind

\* History kept beside the detector: the number of peak1 assignments (pattern
\* instances), the EarlyWarning alerts returned in the current instance and in
\* all, the least and the first value trough_low has held in the current
\* instance, the state and trough_low the last call started from, and the
\* closes of the last history_window candles passed to process_candle, by
\* age (1 the newest).
DetectorHist(h, d, r, candle) ==
    LET fresh == AssignedPeak1(r.det)
        ew    == IF IsAlert(r.alert, "EarlyWarning") THEN 1 ELSE 0
        t     == r.det.trough_low
        base  == IF fresh THEN None ELSE h.min_trough
    IN  [instances   |-> h.instances + (IF fresh THEN 1 ELSE 0),
         ew_instance |-> (IF fresh THEN 0 ELSE h.ew_instance) + ew,
         ew_total    |-> h.ew_total + ew,
         min_trough  |-> IF ~IsSome(t) THEN base
                         ELSE IF ~IsSome(base) THEN t
                         ELSE Some(MinOf(Unwrap(base), Unwrap(t))),
         first_trough |-> IF fresh THEN None
                          ELSE IF IsSome(h.first_trough) THEN h.first_trough
                          ELSE t,
         prev_state  |-> d.state,
         prev_trough |-> d.trough_low,
         recent      |-> [age \in 1 .. history_window |->
                            IF age = 1 THEN candle.close ELSE h.recent[age - 1]]]

\* One call of process_candle on a candle drawn from feed, at most max calls.
ProcessCandleOn(feed, max) ==
    /\ det.candle_count < max
    /\ \E c \in feed :
       \E r \in {process_candle(det, c)} :
         /\ det' = r.det
         /\ out' = [candle |-> Some(c), alert |-> r.alert, atr |-> r.atr,
                    swing_point |-> r.swing_point, inval |-> r.inval]
         /\ hist' = DetectorHist(hist, det, r, c)
    /\ UNCHANGED << atrVars, matchVars, storeVars, chartVars, normVars, swVars, monVars, feedVars >>

ProcessCandle == ProcessCandleOn(Candles, MaxCandles)

ProcessDeepCandle == ProcessCandleOn(DeepCandles, MaxDeepCandles)

ProcessGateCandle == ProcessCandleOn(Candles, MaxGateCandles)

ProcessDistanceCandle == ProcessCandleOn(DistanceCandles, MaxDistanceCandles)

\* A detector whose ATR period is one less or one more than atr_period, so
\* that the first ATR value comes before the warmup_candles-th candle or
\* after it.
GateDetectorInit ==
    /\ \E p \in {atr_period - 1, atr_period + 1} :
         det = [DetectorNew(Coin) EXCEPT !.atr = AtrNew(p)]
    /\ out = [candle |-> None, alert |-> None, atr |-> None,
              swing_point |-> None, inval |-> "none"]
    /\ hist = [instances |-> 0, ew_instance |-> 0, ew_total |-> 0,
               min_trough |-> None, first_trough |-> None,
               prev_state |-> "Watching", prev_trough |-> None,
               recent |-> [age \in 1 .. history_window |-> 0]]

\* ------------------------------------------------- the swing detector alone
\* ATR values handed to SwingDetector::update.
SwingAtrs == { [num |-> n, den |-> 1] : n \in {0, 200, 400} }

SwingInit ==
    /\ sw = SwingNew(rev_atr)
    /\ swOut = None
    /\ swHist = [calls |-> 0, emitted |-> 0, last |-> None, before_last |-> None,
                 since_high |-> 0, since_low |-> 0, seed_high |-> 0, seed_low |-> 0,
                 low |-> 0, high |-> 0, atr |-> [num |-> 0, den |-> 1]]

\* History of the swing detector's run: the calls made, the points returned,
\* the last two points returned; the highest high and the lowest low of the
\* candles from the one the previous point was returned on (or the first
\* candle) through the candle of this call; the same two for the calls after
\* this one (seed_high, seed_low: this candle's alone if this call returned a
\* point); and this call's candle range and ATR.
SwingHist(h, o, candle, atr) ==
    LET hi == IF h.calls = 0 THEN candle.high ELSE MaxOf(h.seed_high, candle.high)
        lo == IF h.calls = 0 THEN candle.low ELSE MinOf(h.seed_low, candle.low)
    IN
    [calls       |-> h.calls + 1,
     emitted     |-> h.emitted + (IF IsSome(o) THEN 1 ELSE 0),
     last        |-> IF IsSome(o) THEN o ELSE h.last,
     before_last |-> IF IsSome(o) THEN h.last ELSE h.before_last,
     since_high  |-> hi,
     since_low   |-> lo,
     seed_high   |-> IF IsSome(o) THEN candle.high ELSE hi,
     seed_low    |-> IF IsSome(o) THEN candle.low ELSE lo,
     low         |-> candle.low,
     high        |-> candle.high,
     atr         |-> atr]

\* One call of SwingDetector::update.
SwingStep ==
    /\ swHist.calls < MaxSwingCalls
    /\ \E c \in Candles, a \in SwingAtrs :
       \E r \in {SwingUpdate(sw, c, a)} :
         /\ sw' = r.swing
         /\ swOut' = r.out
         /\ swHist' = SwingHist(swHist, r.out, c, a)
    /\ UNCHANGED << atrVars, matchVars, storeVars, chartVars, normVars, detVars, monVars, feedVars >>

\* ------------------------------------------------------- the monitor task
\* History of one pass over the coins (warmup, or one cycle): the detectors,
\* watermarks and feed logs the pass started from, the coins in the order
\* they were taken, the outcome of each coin's fetch, and for the coin taken
\* last the time read for it and the close times its fetch returned.
PassStart(ds, wms, f) ==
    [detectors |-> ds, last_candle_time |-> wms, fed |-> f, order |-> << >>,
     result |-> [c \in Coins |-> "pending"], now |-> 0, fetched |-> << >>]

PassLog(h, coin, resp, t) ==
    [h EXCEPT !.order = Append(@, coin),
              !.result[coin] = IF resp.ok THEN "ok" ELSE "err",
              !.now = t,
              !.fetched = CloseTimes(resp.candles)]

MonitorInit ==
    /\ detectors = [c \in Coins |-> DetectorNew(c)]
    /\ last_candle_time = [c \in Coins |-> None]
    /\ now = Now0
    /\ pc = "warmup"
    /\ todo = Coins
    /\ cycle = 0
    /\ patterns = << >>
    /\ published = 0
    /\ fed = [c \in Coins |-> << >>]
    /\ cyc = PassStart(detectors, last_candle_time, fed)

NoClients ==
    [s \in Subscribers |->
       [pc |-> "idle", initial |-> 0, start |-> 0, next |-> 0,
        got |-> << >>, lagged |-> 0]]

FeedInit ==
    /\ chan = ChannelNew
    /\ subs = NoClients
    /\ send_result = "none"

\* The shared state handed to MonitorService::new by a caller that kept no
\* receiver of the channel.
SilentFeedInit ==
    /\ chan = ChannelOrphan
    /\ subs = NoClients
    /\ send_result = "none"

\* The clients of GET /double-top.
StatusReaders == {"r1", "r2"}

\* Fault variant of WriteLockFree: the write lock is granted while read
\* guards are alive.
WriteLockFree_Unchecked == TRUE

\* patterns.write().await returns once no read guard is alive.
WriteLockFree == \A r \in StatusReaders : reads[r].pc # "reading"

\* update_shared_state: one status per detector in the map's iteration
\* order, sorted by coin, stored and sent.  The store is written and the
\* snapshot sent under the store's write lock, so no read of the store falls
\* between the two; a subscribe that does is one that came before both.
update_shared_state ==
    \E o \in CoinOrders :
      LET statuses == SortByCoin([i \in DOMAIN o |->
                                    StatusOf(o[i], detectors[o[i]])])
      IN  /\ WriteLockFree
          /\ patterns' = statuses
          /\ chan' = ChannelSend(chan, [as_of_ms |-> now, patterns |-> statuses])
          /\ send_result' = ChannelSendResult(chan)
          /\ published' = published + 1

\* warmup, one turn of its loop: the fetch for one coin, the clock read after
\* it, and the feeding of the closed candles.
WarmupCoinOn(server) ==
    /\ pc = "warmup" /\ todo # {}
    /\ \E coin \in todo, d \in FetchLatencies(server) :
       \E resp \in Responses(server, coin, WarmupStart(now), now) :
       \E r \in {WarmupCoinBody(detectors[coin], last_candle_time[coin],
                                resp, now + d)} :
         /\ now' = now + d
         /\ detectors' = [detectors EXCEPT ![coin] = r.det]
         /\ last_candle_time' = [last_candle_time EXCEPT ![coin] = r.wm]
         /\ fed' = [fed EXCEPT ![coin] = @ \o r.fed]
         /\ cyc' = PassLog(cyc, coin, resp, now + d)
         /\ todo' = todo \ {coin}
    /\ UNCHANGED << atrVars, matchVars, storeVars, chartVars, normVars, pc, cycle, patterns, published, detVars, swVars, feedVars >>

WarmupCoin == WarmupCoinOn("any")

WarmupCoinFull == WarmupCoinOn("full")

WarmupCoinReliable == WarmupCoinOn("reliable")

\* warmup, after its loop: the snapshot is published and warmup returns Ok;
\* main goes on to run, which waits for its ticker.
WarmupPublish ==
    /\ pc = "warmup" /\ LoopDone(todo)
    /\ update_shared_state
    /\ pc' = IgnoreSendResult(AfterWarmup(WarmupReturn(cyc.result)),
                              ChannelSendResult(chan))
    /\ UNCHANGED << atrVars, matchVars, storeVars, chartVars, normVars, detectors, last_candle_time, now, todo, cycle, fed, cyc,
                    subs, detVars, swVars >>

\* run: the ticker fires, at once the first time and a period later each
\* time after, and a cycle over the coins begins.
TickOn(max) ==
    /\ pc = "sleep" /\ cycle < max
    /\ now' = now + (IF cycle = 0 THEN 0 ELSE INTERVAL_MS)
    /\ pc' = "cycle"
    /\ todo' = Coins
    /\ cycle' = cycle + 1
    /\ cyc' = PassStart(detectors, last_candle_time, fed)
    /\ UNCHANGED << atrVars, matchVars, storeVars, chartVars, normVars, detectors, last_candle_time, patterns, published, fed,
                    detVars, swVars, feedVars >>

Tick == TickOn(MaxCycles)

GapTick == TickOn(MaxGapCycles)

FeedTick == TickOn(MaxFeedCycles)

\* run, one turn of its loop over the coins: process_coin for one coin.  The
\* time the fetch takes is counted into the wait for the next tick.
ProcessCoinOn(server) ==
    /\ pc = "cycle" /\ todo # {}
    /\ \E coin \in todo :
       \E resp \in Responses(server, coin,
                              RequestStart(last_candle_time[coin], now), now) :
       \E r \in {process_coin(detectors[coin], last_candle_time[coin],
                              resp, now)} :
         /\ detectors' = [detectors EXCEPT ![coin] = r.det]
         /\ last_candle_time' = [last_candle_time EXCEPT ![coin] = r.wm]
         /\ fed' = [fed EXCEPT ![coin] = @ \o r.fed]
         /\ cyc' = PassLog(cyc, coin, resp, now)
         /\ todo' = RemainingCoins(todo, coin, r.ok)
    /\ UNCHANGED << atrVars, matchVars, storeVars, chartVars, normVars, now, pc, cycle, patterns, published, detVars, swVars,
                    feedVars >>

ProcessCoin == ProcessCoinOn("any")

ProcessCoinFull == ProcessCoinOn("full")

ProcessCoinReliable == ProcessCoinOn("reliable")

\* process_coin for one coin, when the server accepts the request and never
\* answers.  The client is reqwest::Client::new(), which sets no timeout, and
\* process_coin awaits fetch_candles under none: the await never completes
\* and the monitor task stays in it.
FetchStalls ==
    /\ pc = "cycle" /\ todo # {}
    /\ pc' = "stalled"
    /\ UNCHANGED << atrVars, matchVars, storeVars, chartVars, normVars, detectors, last_candle_time, now, todo, cycle,
                    patterns, published, fed, cyc, detVars, swVars, feedVars >>

\* run, after its loop over the coins: the snapshot is published.
CyclePublish ==
    /\ pc = "cycle" /\ LoopDone(todo)
    /\ update_shared_state
    /\ pc' = IgnoreSendResult("sleep", ChannelSendResult(chan))
    /\ UNCHANGED << atrVars, matchVars, storeVars, chartVars, normVars, detectors, last_candle_time, now, todo, cycle, fed, cyc,
                    subs, detVars, swVars >>

\* --------------------------------------------- the clients of the stream
\* get_double_top_stream, first part: the store is read for the initial
\* snapshot.  initial is the number of the publication the store held.
SubRead ==
    /\ \E s \in Subscribers :
         /\ subs[s].pc = "idle"
         /\ subs' = [subs EXCEPT ![s].pc = "read", ![s].initial = published]
    /\ UNCHANGED << atrVars, matchVars, storeVars, chartVars, normVars, chan, send_result, monVars, detVars, swVars >>

\* get_double_top_stream, second part: broadcaster.subscribe(); the stream
\* returned yields the initial snapshot and then what the receiver yields.
SubSubscribe ==
    /\ \E s \in Subscribers :
         /\ subs[s].pc = "read"
         /\ subs' = [subs EXCEPT ![s].pc = "streaming",
                                 ![s].start = ChannelSubscribe(chan),
                                 ![s].next = ChannelSubscribe(chan)]
    /\ chan' = ChannelAddReceiver(chan)
    /\ UNCHANGED << atrVars, matchVars, storeVars, chartVars, normVars, send_result, monVars, detVars, swVars >>

\* The stream is polled: a snapshot is delivered, or Lagged is swallowed by
\* the filter_map and the receiver goes on from the oldest snapshot kept.
SubRecv ==
    /\ \E s \in Subscribers :
       \E r \in {ChannelRecv(chan, subs[s].next)} :
         /\ subs[s].pc = "streaming"
         /\ r.kind # "empty"
         /\ subs' = [subs EXCEPT
                       ![s].next = r.next,
                       ![s].got = IF r.kind = "value" THEN Append(@, r.next)
                                  ELSE @,
                       ![s].lagged = IF r.kind = "lagged" THEN @ + 1 ELSE @]
    /\ UNCHANGED << atrVars, matchVars, storeVars, chartVars, normVars, chan, send_result, monVars, detVars, swVars >>

\* ------------------------------------------- the clients of the status
\* get_double_top_status: patterns.read().await.clone().  A request takes the
\* read lock (no writer holds the lock between two steps: update_shared_state
\* is one step), clones the list element by element, and drops the guard
\* with the clone as its response.  seen and ver are history: the list in the
\* store and the number of publications when the lock was taken.
StatusIdle ==
    reads = [r \in StatusReaders |->
               [pc |-> "idle", got |-> << >>, seen |-> << >>, ver |-> 0]]

StatusAcquire ==
    /\ \E r \in StatusReaders :
         /\ reads[r].pc \in {"idle", "done"}
         /\ reads' = [reads EXCEPT ![r] = [pc |-> "reading", got |-> << >>,
                                           seen |-> patterns, ver |-> published]]
    /\ UNCHANGED << atrVars, matchVars, chartVars, normVars, monVars, feedVars, detVars, swVars >>

StatusClone ==
    /\ \E r \in StatusReaders :
         /\ reads[r].pc = "reading"
         /\ Len(reads[r].got) < Len(patterns)
         /\ reads' = [reads EXCEPT
                        ![r].got = Append(@, patterns[Len(reads[r].got) + 1])]
    /\ UNCHANGED << atrVars, matchVars, chartVars, normVars, monVars, feedVars, detVars, swVars >>

StatusRespond ==
    /\ \E r \in StatusReaders :
         /\ reads[r].pc = "reading"
         /\ Len(reads[r].got) >= Len(patterns)
         /\ reads' = [reads EXCEPT ![r].pc = "done"]
    /\ UNCHANGED << atrVars, matchVars, chartVars, normVars, monVars, feedVars, detVars, swVars >>

\* ------------------------------------------------- the chart stream task
\* No request made.  pc is where the task stands, ticks the ticks its ticker
\* has completed, sent the events it has put on the channel, queue the events
\* on the channel (by number), rx the receiver held by the response stream,
\* got the events the client has taken, last the outcome of the last
\* send_snapshot, waited the poll intervals the ticker has let pass.
ChartIdle ==
    chart = [pc |-> "none", ticks |-> 0, sent |-> 0, queue |-> << >>,
             rx |-> "none", got |-> 0, last |-> "none", waited |-> 0]

\* Fault variant of AfterSnapshot: an error is logged and the loop goes on.
AfterSnapshot_KeepsGoing(result) == "wait"

\* run_chart_stream after a send_snapshot: Err returns before the loop and
\* breaks out of it; Ok goes on to the next tick.
AfterSnapshot(result) == IF result = "Err" THEN "ended" ELSE "wait"

\* chart_stream: the channel is made and the task spawned; the task starts
\* with a send_snapshot.
ChartSpawn ==
    /\ chart.pc = "none"
    /\ chart' = [chart EXCEPT !.pc = "fetch", !.rx = "open"]
    /\ UNCHANGED << atrVars, matchVars, storeVars, normVars, monVars, feedVars,
                    detVars, swVars >>

\* send_snapshot, first part: fetch_snapshot and snapshot_event; an error of
\* either is returned by "?".
ChartFetch ==
    /\ chart.pc = "fetch"
    /\ \E ok \in BOOLEAN :
         chart' = IF ok THEN [chart EXCEPT !.pc = "send"]
                  ELSE [chart EXCEPT !.pc = AfterSnapshot("Err"),
                                     !.last = "fetch_err"]
    /\ UNCHANGED << atrVars, matchVars, storeVars, normVars, monVars, feedVars,
                    detVars, swVars >>

\* send_snapshot, second part: tx.send(Ok(event)).await.  The send waits
\* while the channel is full and fails once the receiver is dropped.
ChartSend ==
    /\ chart.pc = "send"
    /\ IF chart.rx = "closed"
       THEN chart' = [chart EXCEPT !.pc = AfterSnapshot("Err"), !.last = "closed"]
       ELSE /\ Len(chart.queue) < ChartCapacity
            /\ chart' = [chart EXCEPT !.pc = AfterSnapshot("Ok"),
                                      !.last = "ok",
                                      !.sent = @ + 1,
                                      !.queue = Append(@, chart.sent + 1)]
    /\ UNCHANGED << atrVars, matchVars, storeVars, normVars, monVars, feedVars,
                    detVars, swVars >>

\* ticker.tick().await: the first tick of a tokio interval completes at
\* once, each later one a poll interval after the one before.
ChartTick ==
    /\ chart.pc = "wait"
    /\ chart.ticks < MaxChartTicks
    /\ chart' = [chart EXCEPT !.pc = "fetch",
                              !.ticks = @ + 1,
                              !.waited = @ + (IF chart.ticks = 0 THEN 0 ELSE 1)]
    /\ UNCHANGED << atrVars, matchVars, storeVars, normVars, monVars, feedVars,
                    detVars, swVars >>

\* The response stream is polled and yields the oldest event on the channel.
ChartClientRecv ==
    /\ chart.rx = "open"
    /\ chart.queue # << >>
    /\ chart' = [chart EXCEPT !.queue = Tail(@), !.got = @ + 1]
    /\ UNCHANGED << atrVars, matchVars, storeVars, normVars, monVars, feedVars,
                    detVars, swVars >>

\* The client disconnects: the response stream and its receiver are dropped.
ChartClientGone ==
    /\ chart.rx = "open"
    /\ chart' = [chart EXCEPT !.rx = "closed", !.queue = << >>]
    /\ UNCHANGED << atrVars, matchVars, storeVars, normVars, monVars, feedVars,
                    detVars, swVars >>

\* ------------------------------------------------------ normalize_candles
\* No call made.
NormIdle == norm = None

NormSymbols == {"BTC", "ETH"}
NormIntervals == {"1m", "5m"}

\* Candles as fetch_candles returns them: interval and symbol present or
\* not; of the other fields, num_trades varies.
NormCandles ==
    { [open_time |-> 1, close_time |-> 2, open |-> 10, high |-> 20, low |-> 5,
       close |-> 15, volume |-> 100, num_trades |-> n,
       interval |-> i, symbol |-> y] :
        n \in {0, 5},
        i \in {None} \cup { Some(x) : x \in NormIntervals },
        y \in {None} \cup { Some(x) : x \in NormSymbols } }

NormLists ==
    UNION { [1 .. n -> NormCandles] : n \in 0 .. MaxNormCandles }

\* Fault variant of normalize_candles: interval and symbol are set on every
\* candle.
normalize_candles_Overwrites(candles, coin, interval) ==
    [i \in DOMAIN candles |->
       [candles[i] EXCEPT !.interval = Some(interval), !.symbol = Some(coin)]]

\* normalize_candles, as the value the slice holds after the call.
normalize_candles(candles, coin, interval) ==
    [i \in DOMAIN candles |->
       [candles[i] EXCEPT
          !.interval = IF candles[i].interval = None THEN Some(interval) ELSE @,
          !.symbol = IF candles[i].symbol = None THEN Some(coin) ELSE @]]

\* fetch_snapshot has its candles and is about to normalize them.
NormFetched ==
    /\ norm = None
    /\ \E cs \in NormLists, coin \in NormSymbols, interval \in NormIntervals :
         norm' = Some([candles |-> cs, coin |-> coin, interval |-> interval,
                       once |-> None, twice |-> None])
    /\ UNCHANGED << atrVars, matchVars, storeVars, chartVars, monVars, feedVars,
                    detVars, swVars >>

\* The call of normalize_candles in fetch_snapshot.
Normalize ==
    /\ IsSome(norm)
    /\ Unwrap(norm).once = None
    /\ norm' = LET n == Unwrap(norm) IN
               Some([n EXCEPT !.once =
                       Some(normalize_candles(n.candles, n.coin, n.interval))])
    /\ UNCHANGED << atrVars, matchVars, storeVars, chartVars, monVars, feedVars,
                    detVars, swVars >>

\* A second call on the list the first left, with any coin and interval.
NormalizeAgain ==
    /\ IsSome(norm)
    /\ IsSome(Unwrap(norm).once)
    /\ Unwrap(norm).twice = None
    /\ \E coin \in NormSymbols, interval \in NormIntervals :
         norm' = LET n == Unwrap(norm) IN
                 Some([n EXCEPT !.twice =
                         Some([coin |-> coin, interval |-> interval,
                               candles |-> normalize_candles(Unwrap(n.once),
                                                             coin, interval)])])
    /\ UNCHANGED << atrVars, matchVars, storeVars, chartVars, monVars, feedVars,
                    detVars, swVars >>

\* AtrCalculator::new(period), for every period up to MaxAtrPeriod; new
\* takes any usize, 0 included.
AtrInit ==
    /\ \E period \in 0..MaxAtrPeriod : calc = AtrNew(period)
    /\ calcOut = None
    /\ calcFed = << >>
    /\ calcPanicked = FALSE

\* One update of the calculator.  A panic unwinds out of update: nothing is
\* returned and the calculator is not used again.
AtrStep ==
    /\ Len(calcFed) < MaxAtrCalls
    /\ ~calcPanicked
    /\ \E candle \in AtrCandles :
         /\ calcFed' = Append(calcFed, candle)
         /\ IF AtrUpdatePanics(calc)
            THEN /\ calcPanicked' = TRUE
                 /\ UNCHANGED << calc, calcOut >>
            ELSE LET r == AtrUpdate(calc, candle) IN
                 /\ calc' = r.atr
                 /\ calcOut' = r.out
                 /\ UNCHANGED calcPanicked
    /\ UNCHANGED << detVars, swVars, monVars, feedVars, matchVars, storeVars, chartVars, normVars >>

\* The arguments of one comparison of two peaks, not made yet.
MatchInit ==
    \E a \in MatchPrices, b \in MatchPrices, t \in Tolerances :
        pm = [peak1 |-> a, peak2 |-> b, tolerance |-> t,
              forward |-> None, backward |-> None]

\* The comparison, made with the arguments in each order.
Match ==
    /\ pm.forward = None
    /\ pm' = [pm EXCEPT
                !.forward = Some(PeaksMatchWithin(pm.peak1, pm.peak2, pm.tolerance)),
                !.backward = Some(PeaksMatchWithin(pm.peak2, pm.peak1, pm.tolerance))]
    /\ UNCHANGED << detVars, swVars, monVars, feedVars, atrVars, storeVars, chartVars, normVars >>

\* The calculator and the comparison where they are not driven directly: the
\* calculator as DoubleTopDetector::new makes it, and no comparison.
AtrIdle ==
    /\ calc = AtrNew(atr_period)
    /\ calcOut = None
    /\ calcFed = << >>
    /\ calcPanicked = FALSE

MatchIdle == pm = None

Init == DetectorInit /\ SwingInit /\ MonitorInit /\ FeedInit /\ AtrIdle /\ MatchIdle /\ StatusIdle
        /\ ChartIdle /\ NormIdle

AtrSpecInit ==
    DetectorInit /\ SwingInit /\ MonitorInit /\ FeedInit /\ AtrInit /\ MatchIdle /\ StatusIdle
        /\ ChartIdle /\ NormIdle

SilentInit ==
    DetectorInit /\ SwingInit /\ MonitorInit /\ SilentFeedInit /\ AtrIdle /\ MatchIdle /\ StatusIdle
        /\ ChartIdle /\ NormIdle

MatchSpecInit ==
    DetectorInit /\ SwingInit /\ MonitorInit /\ FeedInit /\ AtrIdle /\ MatchInit /\ StatusIdle
        /\ ChartIdle /\ NormIdle

DetectorNext == ProcessCandle

DetectorSpec == Init /\ [][DetectorNext]_vars

NecklineNext == ProcessDeepCandle

NecklineSpec == Init /\ [][NecklineNext]_vars

GateNext == ProcessGateCandle

GateInit ==
    GateDetectorInit /\ SwingInit /\ MonitorInit /\ FeedInit /\ AtrIdle /\ MatchIdle /\ StatusIdle
        /\ ChartIdle /\ NormIdle

GateSpec == GateInit /\ [][GateNext]_vars

DistanceNext == ProcessDistanceCandle

DistanceSpec == Init /\ [][DistanceNext]_vars

AtrNext == AtrStep

AtrSpec == AtrSpecInit /\ [][AtrNext]_vars

MatchNext == Match

MatchSpec == MatchSpecInit /\ [][MatchNext]_vars

SwingNext == SwingStep

SwingSpec == Init /\ [][SwingNext]_vars

MonitorNext ==
    \/ WarmupCoin
    \/ WarmupPublish
    \/ Tick
    \/ ProcessCoin
    \/ CyclePublish

MonitorSpec == Init /\ [][MonitorNext]_vars

\* The monitor task against a server that answers a request in full, fails
\* it, or leaves it unanswered.  The task is scheduled whenever it can run.
StallNext ==
    \/ WarmupCoinFull
    \/ WarmupPublish
    \/ Tick
    \/ ProcessCoinFull
    \/ FetchStalls
    \/ CyclePublish

StallSpec == Init /\ [][StallNext]_vars /\ WF_vars(StallNext)

\* The monitor task against a server that answers every request it does not
\* fail with all the candles of the requested range.
GapNext ==
    \/ WarmupCoinFull
    \/ WarmupPublish
    \/ GapTick
    \/ ProcessCoinFull
    \/ CyclePublish

GapSpec == Init /\ [][GapNext]_vars

\* The monitor task against a server that never fails, and the clients of
\* the snapshot stream.
FeedNext ==
    \/ WarmupCoinReliable
    \/ WarmupPublish
    \/ FeedTick
    \/ ProcessCoinReliable
    \/ CyclePublish
    \/ SubRead
    \/ SubSubscribe
    \/ SubRecv

FeedSpec == Init /\ [][FeedNext]_vars

\* The monitor task and the clients, on a channel that starts without a
\* receiver.
SilentSpec == SilentInit /\ [][FeedNext]_vars

\* The monitor task against a server that never fails, and the clients of
\* the status.
StoreNext ==
    \/ WarmupCoinReliable
    \/ WarmupPublish
    \/ FeedTick
    \/ ProcessCoinReliable
    \/ CyclePublish
    \/ StatusAcquire
    \/ StatusClone
    \/ StatusRespond

StoreSpec == Init /\ [][StoreNext]_vars

\* One chart stream: its task and its client.
ChartNext ==
    \/ ChartSpawn
    \/ ChartFetch
    \/ ChartSend
    \/ ChartTick
    \/ ChartClientRecv
    \/ ChartClientGone

ChartSpec == Init /\ [][ChartNext]_vars

\* normalize_candles on every list of NormLists.
NormNext ==
    \/ NormFetched
    \/ Normalize
    \/ NormalizeAgain

NormSpec == Init /\ [][NormNext]_vars

\* ===================================================================== claims
\* A process_candle call happened in this step.
Fed == det'.candle_count = det.candle_count + 1

Tracked == {"PeakFound", "TroughFound", "Forming"}

LastCandle == Unwrap(out.candle)

\* C1: a post-warmup candle processed while peak1 is tracked (the state at the
\* start of the candle is PeakFound, TroughFound or Forming) whose high is
\* above peak1.price * (1 + peak_fail_pct/100) leaves the detector in
\* Invalidated and returns no alert, whatever else the candle satisfies.
C1_FailLevelInvalidates ==
    [][ ( /\ Fed
          /\ is_warmed_up(det')
          /\ det.state \in Tracked
          /\ IsSome(det.peak1)
          /\ AboveFailLevel(Unwrap(out'.candle).high, Unwrap(det.peak1).price) )
        => ( det'.state = "Invalidated" /\ out'.alert = None ) ]_vars

\* C1 witness: a candle above the fail level that also produced a swing point
\* was processed from a tracked state.
C1_Witness ==
    /\ hist.prev_state \in Tracked
    /\ out.inval = "fail_level"
    /\ IsSome(out.swing_point)
    /\ det.state = "Invalidated"

\* C2: within one pattern instance (between two assignments of peak1) at most
\* one EarlyWarning is returned.
C2_OneEarlyWarningPerInstance == hist.ew_instance <= 1

\* C2 witness: after an EarlyWarning in an earlier instance a new peak1 was
\* assigned and an EarlyWarning is returned again.
C2_Witness ==
    /\ IsAlert(out.alert, "EarlyWarning")
    /\ hist.instances >= 2
    /\ hist.ew_total >= 2
    /\ hist.ew_instance = 1

C3_LowBreakOnly ==
    /\ hist.prev_state = "Forming" /\ det.state = "Forming"
    /\ IsSome(det.peak2) /\ IsSome(out.atr)
    /\ BelowBreakLevel(LastCandle.low, Unwrap(det.trough_low), Unwrap(out.atr))
    /\ ~BelowBreakLevel(LastCandle.close, Unwrap(det.trough_low), Unwrap(out.atr))

\* C4: the neckline_price of a returned Confirmation is the least value
\* trough_low has held since the current peak1 was set, and its break_price
\* is the close of the candle whose call returned it.
C4_NecklineIsMinTrough ==
    IsAlert(out.alert, "Confirmation") =>
        /\ IsSome(hist.min_trough)
        /\ Unwrap(out.alert).neckline_price = Unwrap(hist.min_trough)
        /\ Unwrap(out.alert).break_price = LastCandle.close

\* C4 witness: a Confirmation whose neckline is below the first trough tracked
\* for its peak1.
C4_Witness ==
    /\ IsAlert(out.alert, "Confirmation")
    /\ IsSome(hist.first_trough)
    /\ Unwrap(out.alert).neckline_price < Unwrap(hist.first_trough)

\* C5 (as claimed): a candle that produces a peak swing point accepted as peak2
\* and triggers invalidation ends in Invalidated with peak2 none.
PeakTwoAcceptedNow ==
    /\ hist.prev_state \in {"TroughFound", "Forming"}
    /\ IsSome(out.swing_point) /\ Unwrap(out.swing_point).is_peak
    /\ IsSome(det.peak1)
    /\ peaks_match(Unwrap(det.peak1).price, Unwrap(out.swing_point).price)

C5_Peak2Discarded ==
    (PeakTwoAcceptedNow /\ out.inval # "none")
        => (det.state = "Invalidated" /\ peak2_price(det) = None)

\* C6 (as claimed): when invalidation fires, by either condition, peak1, the
\* trough and peak2 are none after that candle.
C6_InvalidationClears ==
    out.inval # "none"
        => (det.peak1 = None /\ det.trough_low = None /\ det.peak2 = None)

\* C7: across a process_candle call the tracked trough never increases; it
\* returns to none only when the call assigns a new peak1.
C7_TroughNeverIncreases ==
    [][ Fed =>
        /\ (IsSome(det.trough_low) /\ IsSome(det'.trough_low))
              => Unwrap(det'.trough_low) <= Unwrap(det.trough_low)
        /\ (IsSome(det.trough_low) /\ ~IsSome(det'.trough_low))
              => AssignedPeak1(det')
        /\ AssignedPeak1(det') => ~IsSome(det'.trough_low) ]_vars

\* C7 witness: a call lowered a tracked trough.
C7_Witness ==
    /\ IsSome(hist.prev_trough) /\ IsSome(det.trough_low)
    /\ Unwrap(det.trough_low) < Unwrap(hist.prev_trough)

\* C8: the swing points returned by SwingDetector::update alternate in
\* polarity, and the first call returns none.
C8_SwingPointsAlternate ==
    /\ (IsSome(swHist.last) /\ IsSome(swHist.before_last))
          => Unwrap(swHist.last).is_peak # Unwrap(swHist.before_last).is_peak
    /\ swHist.calls = 1 => swOut = None
    /\ swHist.emitted <= MaxOf(swHist.calls - 1, 0)

\* C8 witness: a peak, a trough and a peak again have been returned.
C8_Witness ==
    /\ swHist.emitted >= 3
    /\ IsSome(swOut) /\ Unwrap(swOut).is_peak

StrictlyAscending(ts) == \A i \in 1 .. Len(ts) - 1 : ts[i] < ts[i + 1]

IsPrefix(p, q) == Len(p) <= Len(q) /\ SubSeq(q, 1, Len(p)) = p

\* C9: with every fetch returning its candles in ascending order of close
\* time, the close times of the candles a detector is fed, over warmup and
\* every cycle after it, are strictly ascending, so no candle is fed twice; a
\* watermark is the close time of the last candle fed, and it never went down
\* since the pass began.
C9_WatermarkIsLastFed ==
    \A c \in Coins :
      /\ StrictlyAscending(fed[c])
      /\ detectors[c].candle_count = Len(fed[c])
      /\ IsPrefix(cyc.fed[c], fed[c])
      /\ IsSome(last_candle_time[c]) <=>  fed[c] # << >>
      /\ IsSome(last_candle_time[c])
            => Unwrap(last_candle_time[c]) = fed[c][Len(fed[c])]
      /\ IsSome(cyc.last_candle_time[c])
            => /\ IsSome(last_candle_time[c])
               /\ Unwrap(last_candle_time[c]) >= Unwrap(cyc.last_candle_time[c])

\* C9 witness: in a cycle after warmup, a fetch has returned a candle the
\* detector had been fed already together with a newer closed one, and the
\* detector has now been fed three candles.
C9_Witness ==
    /\ cycle >= 1
    /\ cyc.order # << >>
    /\ LET c == cyc.order[Len(cyc.order)] IN
         /\ Len(fed[c]) >= 3
         /\ Len(fed[c]) > Len(cyc.fed[c])
         /\ \E i \in DOMAIN cyc.fetched, j \in DOMAIN cyc.fed[c] :
               cyc.fetched[i] = cyc.fed[c][j]

\* The close times among ts that a cycle reading the clock at t must feed to a
\* detector whose watermark is wm.
NewClosed(ts, t, wm) ==
    SelectSeq(ts, LAMBDA x : /\ x <= t - INTERVAL_MS
                             /\ (IsSome(wm) => x > Unwrap(wm)))

\* C10: in a steady-state cycle, a coin whose fetch failed keeps the detector
\* and the watermark it had when the cycle began; a coin whose fetch succeeded
\* has been fed the new closed candles of the response, and its watermark has
\* moved up to the last of them; and the loop reaches every coin, whichever
\* came first.
C10_FetchFailureIsolated ==
    cycle >= 1 =>
      /\ \A c \in Coins :
           cyc.result[c] \in {"err", "pending"}
             => /\ detectors[c] = cyc.detectors[c]
                /\ last_candle_time[c] = cyc.last_candle_time[c]
                /\ fed[c] = cyc.fed[c]
      /\ \A c \in Coins :
           (cyc.result[c] = "ok" /\ Len(fed[c]) > Len(cyc.fed[c]))
             => /\ last_candle_time[c] = Some(fed[c][Len(fed[c])])
                /\ IsSome(cyc.last_candle_time[c])
                      => Unwrap(last_candle_time[c]) > Unwrap(cyc.last_candle_time[c])
      /\ cyc.order # << >> =>
           LET c == cyc.order[Len(cyc.order)] IN
             cyc.result[c] = "ok"
               => fed[c] = cyc.fed[c] \o NewClosed(cyc.fetched, cyc.now,
                                                   cyc.last_candle_time[c])
      /\ todo = {} => \A c \in Coins : cyc.result[c] # "pending"

\* C10 witness: a cycle has ended in which the coin taken first failed its
\* fetch, having a watermark, and the coin taken second was fed new candles.
C10_Witness ==
    /\ cycle >= 1 /\ pc = "cycle" /\ todo = {}
    /\ Len(cyc.order) = 2
    /\ cyc.result[cyc.order[1]] = "err"
    /\ IsSome(cyc.last_candle_time[cyc.order[1]])
    /\ cyc.result[cyc.order[2]] = "ok"
    /\ IsSome(cyc.last_candle_time[cyc.order[2]])
    /\ Len(fed[cyc.order[2]]) > Len(cyc.fed[cyc.order[2]])

\* The same cycle with the coins taken in the other order: the fetch that
\* succeeds comes first.
C10_SuccessFirst ==
    /\ cycle >= 1 /\ pc = "cycle" /\ todo = {}
    /\ Len(cyc.order) = 2
    /\ cyc.result[cyc.order[2]] = "err"
    /\ IsSome(cyc.last_candle_time[cyc.order[2]])
    /\ cyc.result[cyc.order[1]] = "ok"
    /\ Len(fed[cyc.order[1]]) > Len(cyc.fed[cyc.order[1]])

\* The first minute the warmup request made at Now0 covers, and the last
\* minute that counts as closed at time t.
WarmupFirstMinute == CHOOSE k \in MinutesIn(WarmupStart(Now0), Now0) :
                        \A j \in MinutesIn(WarmupStart(Now0), Now0) : k <= j

LastClosedMinute(t) == (t - INTERVAL_MS + 1) \div INTERVAL_MS

FedMinute(c, k) == \E i \in DOMAIN fed[c] : fed[c][i] = CloseTimeOf(k)

C11_GapAfterWatermarkRetried ==
    \A c \in Coins :
      (cycle >= 1 /\ cyc.result[c] = "ok" /\ IsSome(cyc.last_candle_time[c]))
        => \A k \in 1 .. LastClosedMinute(now) :
              CloseTimeOf(k) >= fed[c][1] => FedMinute(c, k)

AllProcessed == \A c \in Coins : cyc.result[c] # "pending"

\* C12: every steady-state cycle publishes exactly one snapshot, and only
\* after every coin of the cycle has been processed, however many of the
\* fetches failed.  Warmup has published one snapshot before the first cycle.
C12_OneSnapshotPerCycle ==
    cycle >= 1 =>
      /\ pc = "cycle" => published = cycle
      /\ pc = "sleep" => (published = cycle + 1 /\ AllProcessed)
      /\ pc \in {"cycle", "sleep"}
      /\ chan.tail = published

\* C12 witness: the second cycle has ended, every fetch of it failed, and its
\* snapshot is out.
C12_Witness ==
    /\ cycle >= 2 /\ pc = "sleep"
    /\ \A c \in Coins : cyc.result[c] = "err"
    /\ published = cycle + 1

\* C13: every candle fed, in warmup or in a cycle, has close_time <= now -
\* INTERVAL_MS when it is fed, so no candle still open is fed; and after a
\* warmup fetch that succeeded the watermark is the close time of the last
\* candle fed.
C13_OnlyClosedCandlesFed ==
    /\ \A c \in Coins : \A i \in DOMAIN fed[c] : fed[c][i] <= now - INTERVAL_MS
    /\ cyc.order # << >> =>
         LET c == cyc.order[Len(cyc.order)] IN
           \A i \in DOMAIN fed[c] :
              i > Len(cyc.fed[c]) => fed[c][i] <= cyc.now - INTERVAL_MS
    /\ \A c \in Coins :
         (cycle = 0 /\ cyc.result[c] = "ok")
           => last_candle_time[c] =
                 (IF fed[c] = << >> THEN None ELSE Some(fed[c][Len(fed[c])]))

\* C13 witness: a fetch has returned a closed candle, which was fed, and one
\* not closed yet, which was not.
C13_Witness ==
    /\ cyc.order # << >>
    /\ LET c == cyc.order[Len(cyc.order)] IN
         /\ Len(fed[c]) > Len(cyc.fed[c])
         /\ \E i \in DOMAIN cyc.fetched :
               /\ cyc.fetched[i] > cyc.now - INTERVAL_MS
               /\ \A j \in DOMAIN fed[c] : fed[c][j] # cyc.fetched[i]

\* C14: in warmup a coin whose fetch failed keeps its new detector and has no
\* watermark, the other coins are still warmed up, one snapshot is published
\* after all of them, and warmup returns Ok: the monitor task never stops
\* and run's ticker can fire.
C14_WarmupFailureIsolated ==
    /\ pc # "stopped"
    /\ cycle = 0 =>
         /\ \A c \in Coins :
              cyc.result[c] \in {"err", "pending"}
                => /\ detectors[c] = DetectorNew(c)
                   /\ last_candle_time[c] = None
                   /\ fed[c] = << >>
         /\ pc = "warmup" => published = 0
         /\ pc # "warmup" => (pc = "sleep" /\ published = 1 /\ AllProcessed
                              /\ ENABLED Tick)

\* C14 witness: warmup is over, every fetch of it failed, and its snapshot is
\* out.
C14_Witness ==
    /\ cycle = 0 /\ pc = "sleep" /\ published = 1
    /\ \A c \in Coins : cyc.result[c] = "err"

\* One status per coin, in strictly ascending order of coin.
OnePerCoinAscending(list) ==
    /\ Len(list) = Cardinality(Coins)
    /\ { list[i].coin : i \in DOMAIN list } = Coins
    /\ \A i \in 1 .. Len(list) - 1 :
         CoinRank(list[i].coin) < CoinRank(list[i + 1].coin)

\* C17: the store's list and the list of every snapshot sent hold one status
\* per coin in strictly ascending order of coin, whatever the order in which
\* the coins were processed and the map was iterated.
C17_PublishedListsSorted ==
    published >= 1 =>
      /\ OnePerCoinAscending(patterns)
      /\ \A i \in DOMAIN chan.buf : OnePerCoinAscending(chan.buf[i].value.patterns)
      /\ chan.buf # << >> /\ chan.buf[Len(chan.buf)].value.patterns = patterns

\* C17 witness: a cycle that took ETH before BTC has published its snapshot.
C17_Witness ==
    /\ cycle >= 1 /\ pc = "sleep" /\ published >= 2
    /\ cyc.order = << "ETH", "BTC" >>

Streaming(s) == subs[s].pc = "streaming"

Got(s, m) == \E i \in DOMAIN subs[s].got : subs[s].got[i] = m

\* C15 (as claimed): a client of the stream that has not lagged has been
\* delivered every publication after the one its initial snapshot came from,
\* up to where its receiver stands.
C15_NoSnapshotMissed ==
    \A s \in Subscribers :
      (Streaming(s) /\ subs[s].lagged = 0)
        => \A m \in (subs[s].initial + 1) .. subs[s].next : Got(s, m)

\* The part of C15 that holds: a client that has not lagged has been
\* delivered every snapshot sent after it subscribed, up to where its
\* receiver stands.
C15_NoneMissedSinceSubscribe ==
    \A s \in Subscribers :
      (Streaming(s) /\ subs[s].lagged = 0)
        => \A m \in (subs[s].start + 1) .. subs[s].next : Got(s, m)

\* C16: a publication that is due can always be made, whatever the clients
\* have read; a client that has not lagged has received every snapshot since
\* it subscribed, in order; a client that has lagged has lost only snapshots
\* that had ChannelCapacity newer ones behind them, receives in the order of
\* publication, and always has the next snapshot kept to receive.
C16_SlowSubscriberOnlyLosesOldest ==
    /\ (pc \in {"warmup", "cycle"} /\ LoopDone(todo))
          => ENABLED (WarmupPublish \/ CyclePublish)
    /\ \A s \in Subscribers :
         Streaming(s) =>
           /\ subs[s].next <= chan.tail
           /\ StrictlyAscending(subs[s].got)
           /\ subs[s].lagged = 0
                 => subs[s].got = [i \in 1 .. (subs[s].next - subs[s].start) |->
                                     subs[s].start + i]
           /\ subs[s].next < chan.tail
                 => ChannelRecv(chan, subs[s].next).kind # "empty"
           /\ \A m \in (subs[s].start + 1) .. subs[s].next :
                 ~Got(s, m) => /\ subs[s].lagged >= 1
                               /\ chan.tail >= m + ChannelCapacity

\* C16 witness: one client fell more than the capacity behind, lost its
\* oldest snapshots and has caught up through the later ones; the other has
\* received every snapshot, more than the capacity of them.
C16_Witness ==
    \E s, t \in Subscribers :
      /\ Streaming(s) /\ subs[s].lagged >= 1
      /\ subs[s].got # << >> /\ subs[s].next = chan.tail
      /\ Streaming(t) /\ subs[t].lagged = 0
      /\ Len(subs[t].got) > ChannelCapacity /\ subs[t].next = chan.tail

\* C18: after a candle that is before the warmup_candles-th, or for which
\* there is no ATR value yet, process_candle has returned no alert, the state
\* is Watching with no peak or trough, and the swing detector is as new;
\* is_warmed_up is false exactly before the warmup_candles-th candle.
C18_WarmupGate ==
    /\ (det.candle_count >= 1
          /\ (det.candle_count < warmup_candles \/ out.atr = None))
         => /\ out.alert = None
            /\ det.state = "Watching"
            /\ det.peak1 = None /\ det.trough_low = None /\ det.peak2 = None
            /\ det.swing = SwingNew(rev_atr)
    /\ is_warmed_up(det) <=> det.candle_count >= warmup_candles

\* C18 witness: a candle before the warmup_candles-th for which there was an
\* ATR value already.
C18_Witness ==
    /\ det.candle_count >= 1 /\ det.candle_count < warmup_candles
    /\ out.atr # None

\* The other gate alone: the warmup_candles-th candle or a later one, for
\* which there was no ATR value yet.
C18_NoAtrYet ==
    /\ det.candle_count >= warmup_candles /\ out.atr = None

\* C19: after every processed candle a detector in PeakFound, TroughFound or
\* Forming is at most max_peak_distance candles past its first peak; the
\* candle that exceeds the distance leaves the detector Invalidated and
\* returns no alert.
C19_PeakDistanceBounded ==
    /\ det.state \in Tracked
         => /\ IsSome(det.peak1)
            /\ det.candle_count - Unwrap(det.peak1).candle_idx <= max_peak_distance
    /\ out.inval = "distance"
         => /\ det.state = "Invalidated"
            /\ out.alert = None

\* C19 witness: a detector that was tracking its first peak has been
\* invalidated by the first candle past max_peak_distance.
C19_Witness ==
    /\ out.inval = "distance"
    /\ hist.prev_state \in Tracked
    /\ det.state = "Invalidated"
    /\ det.candle_count - Unwrap(det.peak1).candle_idx = max_peak_distance + 1

\* C20: every update after the period-th returns
\* (prev * (period - 1) + true range) / period, prev being the value the
\* update before it returned.
C20_WilderOnPreviousOutput ==
    [][(Fed /\ IsSome(out.atr) /\ IsSome(out'.atr))
        => LET prev == Unwrap(out.atr)
               cur == Unwrap(out'.atr)
               period == det.atr.period
               tr == true_range(det.atr, LastCandle')
           IN  cur.num * prev.den * period
                 = cur.den * (prev.num * (period - 1) + tr * prev.den)]_vars

\* The update that follows the first returned value does smooth that value.
C20_FirstSmoothedValue ==
    [][(Fed /\ IsSome(out.atr) /\ IsSome(out'.atr)
           /\ det.candle_count = det.atr.period)
        => LET prev == Unwrap(out.atr)
               cur == Unwrap(out'.atr)
               period == det.atr.period
               tr == true_range(det.atr, LastCandle')
           IN  cur.num * prev.den * period
                 = cur.den * (prev.num * (period - 1) + tr * prev.den)]_vars

\* The true range of the i-th candle of a sequence, from its definition:
\* high - low for the first, and max(high - low, |high - prevClose|,
\* |low - prevClose|) after it.
TrueRangeAt(candles, i) ==
    LET c == candles[i]
        hl == c.high - c.low
    IN  IF i = 1 THEN hl
        ELSE LET prevClose == candles[i - 1].close IN
             MaxOf(hl, MaxOf(Abs(c.high - prevClose), Abs(c.low - prevClose)))

RECURSIVE TrueRangeSum(_, _)
TrueRangeSum(candles, n) ==
    IF n = 0 THEN 0 ELSE TrueRangeSum(candles, n - 1) + TrueRangeAt(candles, n)

\* C21: for every period P >= 1, update returns None for the first P - 1
\* updates, and on the P-th the mean of the first P true ranges.
C21_FirstValueIsMean ==
    LET P == calc.period
        n == Len(calcFed)
    IN  (P >= 1 /\ n >= 1 /\ n <= P)
          => IF n < P
             THEN calcOut = None
             ELSE /\ IsSome(calcOut)
                  /\ Unwrap(calcOut).num * P
                       = Unwrap(calcOut).den * TrueRangeSum(calcFed, P)

\* C21 witness: test_atr_calculation, period 3 and true ranges 4, 5, 3; the
\* third update returns 4.
C21_Witness ==
    /\ calc.period = 3
    /\ calcFed = << [high |-> 102, low |-> 98, close |-> 100],
                    [high |-> 104, low |-> 99, close |-> 102],
                    [high |-> 103, low |-> 100, close |-> 101] >>
    /\ IsSome(calcOut)
    /\ Unwrap(calcOut).num = 4 * Unwrap(calcOut).den

\* C22: no update is ever executed on a calculator of period 0.
C22_ZeroPeriodNeverUpdated ==
    calc.period = 0 => calcFed = << >>

\* C23: a fetch that never returns does not hold the cycle up; every cycle
\* that started ends with its snapshot published.
C23_StalledFetchAbandoned ==
    \A k \in 1..MaxCycles :
        (cycle = k /\ pc = "cycle") ~> (cycle = k /\ published = k + 1)

\* Every cycle in which no fetch stalls does publish its snapshot.
C23_CyclePublishesUnlessStalled ==
    \A k \in 1..MaxCycles :
        (cycle = k /\ pc = "cycle")
            ~> (cycle = k /\ (published = k + 1 \/ pc = "stalled"))

\* C24: after a publish whose send failed for want of a receiver, the store
\* holds that cycle's list, and the monitor task waits for its next tick.
C24_SendFailureSwallowed ==
    (send_result = "Err" /\ pc # "cycle")
      => /\ Len(patterns) = Cardinality(Coins)
         /\ \A i \in DOMAIN patterns :
              patterns[i] = StatusOf(patterns[i].coin, detectors[patterns[i].coin])
         /\ published = cycle + 1
         /\ pc = "sleep"
         /\ cycle < MaxFeedCycles => ENABLED FeedTick

\* C24 witness: the send of a steady-state cycle failed, and the task waits
\* for the next tick.
C24_Witness ==
    /\ send_result = "Err" /\ chan.rx_cnt = 0
    /\ cycle >= 1 /\ published = cycle + 1
    /\ pc = "sleep"

\* C25: peaks_match gives the same answer with its two prices exchanged,
\* under every tolerance: the answer is whether the difference, as a
\* percentage of the mean of the two prices, is within the tolerance.
C25_PeaksMatchSymmetric ==
    (pm # None /\ IsSome(pm.forward))
      => /\ pm.forward = pm.backward
         /\ Unwrap(pm.forward)
              <=> Abs(pm.peak1 - pm.peak2) * 100 * 10 * 2
                    <= pm.tolerance * (pm.peak1 + pm.peak2)

\* C25 witness: two different prices that match, compared both ways.
C25_Witness ==
    /\ pm # None /\ IsSome(pm.forward) /\ IsSome(pm.backward)
    /\ pm.peak1 < pm.peak2
    /\ pm.tolerance > 0
    /\ Unwrap(pm.forward)

\* The call that led to the state was a post-warmup one with an ATR value.
Processed == det.candle_count >= warmup_candles /\ out.atr # None

\* The detector as the call found its pattern fields, with the counter, the
\* window, the ATR and the swing detector as the call left them.
AtStartOfCandle ==
    [det' EXCEPT !.state = det.state, !.peak1 = det.peak1,
                 !.trough_low = det.trough_low, !.peak2 = det.peak2,
                 !.early_warning_sent = det.early_warning_sent]

\* C26: a post-warmup candle's swing point is applied first, to the state as
\* of the start of the candle; invalidation is evaluated on the state so
\* updated, then the neckline is tightened, and the alert checks come last.
\* When invalidation fires the neckline is not tightened and no alert is
\* returned.
C26_PerCandleOrder ==
    [][(Fed /\ Processed')
        => LET candle == LastCandle'
               afterSwing == IF IsSome(out'.swing_point)
                             THEN handle_swing_point(AtStartOfCandle,
                                                     Unwrap(out'.swing_point))
                             ELSE AtStartOfCandle
               inv == Invalidation(afterSwing, candle)
               tightened == TightenNeckline(afterSwing, candle)
               last == CheckAlerts(tightened, candle, Unwrap(out'.atr))
           IN  /\ out'.inval = inv
               /\ inv # "none"
                    => /\ out'.alert = None
                       /\ det' = [afterSwing EXCEPT !.state = "Invalidated"]
               /\ inv = "none"
                    => /\ out'.alert = last.alert
                       /\ det' = last.det]_vars

\* C26 witness: one candle's swing point took the detector from PeakFound to
\* TroughFound, and the early warning was given on that same candle.
C26_Witness ==
    /\ Processed
    /\ hist.prev_state = "PeakFound"
    /\ IsSome(out.swing_point) /\ ~Unwrap(out.swing_point).is_peak
    /\ IsAlert(out.alert, "EarlyWarning")
    /\ det.state = "Forming"

\* The state changes the state machine lists.
ListedChanges ==
    { << "Watching", "PeakFound" >>, << "PeakFound", "TroughFound" >>,
      << "TroughFound", "Forming" >>, << "Forming", "Confirmed" >>,
      << "PeakFound", "Invalidated" >>, << "TroughFound", "Invalidated" >>,
      << "Forming", "Invalidated" >>,
      << "Confirmed", "PeakFound" >>, << "Invalidated", "PeakFound" >> }

\* The state a call of process_candle had after its swing handling, between
\* the change handle_swing_point may make and the one check_state_transitions
\* may make.
StateAfterSwing ==
    IF IsSome(out'.swing_point)
    THEN handle_swing_point(AtStartOfCandle, Unwrap(out'.swing_point)).state
    ELSE det.state

\* C27: every change of state is one of the listed ones; Confirmed and
\* Invalidated are left only for PeakFound, and Watching is never re-entered.
C27_OnlyListedChanges ==
    [][Fed => /\ det.state # StateAfterSwing
                   => << det.state, StateAfterSwing >> \in ListedChanges
              /\ StateAfterSwing # det'.state
                   => << StateAfterSwing, det'.state >> \in ListedChanges]_vars

\* Every change of state is a listed one or Confirmed -> Invalidated.
C27_ListedOrConfirmedInvalidated ==
    [][Fed => /\ det.state # StateAfterSwing
                   => << det.state, StateAfterSwing >> \in ListedChanges
              /\ StateAfterSwing # det'.state
                   => << StateAfterSwing, det'.state >>
                        \in ListedChanges \cup { << "Confirmed", "Invalidated" >> }]_vars

\* The detector a call of process_candle had after its swing handling.
AfterSwing ==
    IF IsSome(out'.swing_point)
    THEN handle_swing_point(AtStartOfCandle, Unwrap(out'.swing_point))
    ELSE AtStartOfCandle

\* C28: a post-warmup candle returns an EarlyWarning, and TroughFound ->
\* Forming is taken, if and only if after the candle's swing handling,
\* invalidation and tightening the state is TroughFound, no early warning was
\* given in this pattern instance, the pattern height is at least
\* min_pattern_height, the close is within approach_threshold of peak1, the
\* close is above the close trend_lookback candles earlier (unless the window
\* holds no more than trend_lookback candles) and the high is not above the
\* fail level.  The alert carries peak1's price and the close.
C28_EarlyWarningIff ==
    [][(Fed /\ Processed')
        => LET candle == LastCandle'
               d == TightenNeckline(AfterSwing, candle)
               window == det'.candles
               n == Len(window)
               due ==
                 /\ out'.inval = "none"
                 /\ d.state = "TroughFound"
                 /\ hist.ew_instance = 0
                 /\ IsSome(d.peak1) /\ IsSome(d.trough_low)
                 /\ (Unwrap(d.peak1).price - Unwrap(d.trough_low)) * 1000
                      >= min_pattern_height * Unwrap(d.peak1).price
                 /\ Abs(Unwrap(d.peak1).price - candle.close) * 1000
                      <= approach_threshold * Unwrap(d.peak1).price
                 /\ n > trend_lookback
                      => candle.close > window[n - trend_lookback].close
                 /\ candle.high * 1000
                      <= Unwrap(d.peak1).price * (1000 + peak_fail_pct)
           IN  /\ IsAlert(out'.alert, "EarlyWarning") <=> due
               /\ (d.state = "TroughFound" /\ det'.state = "Forming") <=> due
               /\ due => /\ Unwrap(out'.alert).peak_price = Unwrap(d.peak1).price
                         /\ Unwrap(out'.alert).current_price = candle.close
                         /\ det'.early_warning_sent]_vars

\* C28 witness: a detector that was in TroughFound before the candle, with
\* more than trend_lookback candles in its window, has given the early
\* warning.
C28_Witness ==
    /\ Processed
    /\ hist.prev_state = "TroughFound"
    /\ Len(det.candles) > trend_lookback
    /\ IsAlert(out.alert, "EarlyWarning")
    /\ det.state = "Forming" /\ det.early_warning_sent

\* C29: a post-warmup candle that leaves the detector in TroughFound or
\* Forming without a second peak leaves the trough at or below its low; with
\* a second peak present the candle's low does not change the trough.
C29_TroughFollowsLow ==
    [][(Fed /\ Processed')
        => /\ (det'.state \in {"TroughFound", "Forming"} /\ det'.peak2 = None)
                => /\ IsSome(det'.trough_low)
                   /\ Unwrap(det'.trough_low) <= LastCandle'.low
           /\ IsSome(AfterSwing.peak2)
                => det'.trough_low = AfterSwing.trough_low]_vars

\* C29 witness: a candle without a swing point undercut the trough and
\* lowered it to its low.
C29_Witness ==
    /\ Processed
    /\ det.state \in {"TroughFound", "Forming"} /\ det.peak2 = None
    /\ out.swing_point = None
    /\ IsSome(hist.prev_trough)
    /\ det.trough_low = Some(LastCandle.low)
    /\ LastCandle.low < Unwrap(hist.prev_trough)

\* A candle undercut the trough of a detector that holds a second peak, and
\* the trough stayed.
C29_WithPeak2 ==
    /\ Processed
    /\ det.state = "Forming" /\ IsSome(det.peak2)
    /\ IsSome(det.trough_low)
    /\ LastCandle.low < Unwrap(det.trough_low)

\* C30: in Confirmed or Invalidated a trough swing point changes none of
\* state, peak1, trough and peak2; a peak swing point, there and in Watching,
\* makes the swing point's price at the current candle index the new peak1,
\* clears the trough, peak2 and the early-warning flag and sets PeakFound.
C30_FreshPatternOnPeak ==
    [][(Fed /\ Processed' /\ IsSome(out'.swing_point))
        => LET sp == Unwrap(out'.swing_point) IN
           /\ (det.state \in {"Confirmed", "Invalidated"} /\ ~sp.is_peak)
                => /\ AfterSwing.state = det.state
                   /\ AfterSwing.peak1 = det.peak1
                   /\ AfterSwing.trough_low = det.trough_low
                   /\ AfterSwing.peak2 = det.peak2
                   /\ det'.peak1 = det.peak1
                   /\ det'.trough_low = det.trough_low
                   /\ det'.peak2 = det.peak2
           /\ (det.state \in {"Watching", "Confirmed", "Invalidated"} /\ sp.is_peak)
                => /\ AfterSwing.state = "PeakFound"
                   /\ AfterSwing.peak1 = Some([price |-> sp.price,
                                               candle_idx |-> det.candle_count + 1])
                   /\ AfterSwing.trough_low = None
                   /\ AfterSwing.peak2 = None
                   /\ ~AfterSwing.early_warning_sent
                   /\ det'.peak1 = AfterSwing.peak1
                   /\ det'.trough_low = None /\ det'.peak2 = None
                   /\ ~det'.early_warning_sent]_vars

\* C30 witness: a peak swing point found the detector Confirmed or
\* Invalidated with a trough tracked, and started a fresh pattern.
C30_Witness ==
    /\ Processed
    /\ hist.prev_state \in {"Confirmed", "Invalidated"}
    /\ IsSome(hist.prev_trough)
    /\ IsSome(out.swing_point) /\ Unwrap(out.swing_point).is_peak
    /\ det.state = "PeakFound"
    /\ det.peak1 = Some([price |-> Unwrap(out.swing_point).price,
                         candle_idx |-> det.candle_count])
    /\ det.trough_low = None /\ det.peak2 = None

\* A trough swing point found the detector Confirmed or Invalidated.
C30_TroughIgnored ==
    /\ Processed
    /\ hist.prev_state \in {"Confirmed", "Invalidated"}
    /\ IsSome(out.swing_point) /\ ~Unwrap(out.swing_point).is_peak

\* The two prices are within peak_tolerance percent of their mean.
WithinTolerance(a, b) == Abs(a - b) * 2 * 100 * 10 <= peak_tolerance * (a + b)

\* C31: a peak2 that is set matches the current peak1 within peak_tolerance;
\* a peak swing point in TroughFound or Forming that does not match leaves
\* peak2 as it was, and a peak swing point in PeakFound is ignored.
C31_Peak2MatchesPeak1 ==
    [][(Fed /\ Processed')
        => /\ IsSome(det'.peak2)
                => /\ IsSome(det'.peak1)
                   /\ WithinTolerance(Unwrap(det'.peak1).price,
                                      Unwrap(det'.peak2).price)
           /\ (IsSome(out'.swing_point) /\ Unwrap(out'.swing_point).is_peak)
                => /\ (det.state \in {"TroughFound", "Forming"}
                         /\ ~WithinTolerance(Unwrap(det.peak1).price,
                                             Unwrap(out'.swing_point).price))
                        => det'.peak2 = det.peak2
                   /\ det.state = "PeakFound"
                        => /\ AfterSwing.state = "PeakFound"
                           /\ det'.peak1 = det.peak1
                           /\ det'.trough_low = det.trough_low
                           /\ det'.peak2 = det.peak2]_vars

\* C31 witness: a peak swing point in TroughFound or Forming matched peak1
\* and became peak2.
C31_Witness ==
    /\ Processed
    /\ hist.prev_state \in {"TroughFound", "Forming"}
    /\ IsSome(out.swing_point) /\ Unwrap(out.swing_point).is_peak
    /\ IsSome(det.peak2) /\ Unwrap(det.peak2).candle_idx = det.candle_count
    /\ Unwrap(det.peak2).price = Unwrap(out.swing_point).price

\* A peak swing point in TroughFound or Forming did not match peak1.
C31_Unmatched ==
    /\ Processed
    /\ hist.prev_state \in {"TroughFound", "Forming"}
    /\ IsSome(out.swing_point) /\ Unwrap(out.swing_point).is_peak
    /\ ~WithinTolerance(Unwrap(det.peak1).price, Unwrap(out.swing_point).price)
    /\ det.peak2 = None

\* A peak swing point arrived in PeakFound.
C31_PeakInPeakFound ==
    /\ Processed
    /\ hist.prev_state = "PeakFound"
    /\ IsSome(out.swing_point) /\ Unwrap(out.swing_point).is_peak

\* The drop from peak to price is at least min_pullback_pct percent of peak.
PullbackEnough(peak, price) == (peak - price) * 100 * 10 >= min_pullback_pct * peak

\* C32: PeakFound -> TroughFound is taken only by a trough swing point with a
\* pullback of at least min_pullback_pct; a trough swing point in PeakFound,
\* TroughFound or Forming replaces the trough exactly when it has that
\* pullback and is strictly lower than the trough tracked; in TroughFound
\* and Forming the trough is at least min_pullback_pct below peak1.
C32_TroughNeedsPullback ==
    [][(Fed /\ Processed')
        => /\ det'.state \in {"TroughFound", "Forming"}
                => /\ IsSome(det'.peak1) /\ IsSome(det'.trough_low)
                   /\ PullbackEnough(Unwrap(det'.peak1).price,
                                     Unwrap(det'.trough_low))
           /\ (det.state = "PeakFound" /\ AfterSwing.state = "TroughFound")
                => /\ IsSome(out'.swing_point)
                   /\ ~Unwrap(out'.swing_point).is_peak
                   /\ PullbackEnough(Unwrap(det.peak1).price,
                                     Unwrap(out'.swing_point).price)
           /\ (det.state = "PeakFound" /\ det'.state \in {"TroughFound", "Forming"})
                => AfterSwing.state = "TroughFound"
           /\ (det.state \in Tracked /\ IsSome(out'.swing_point)
                  /\ ~Unwrap(out'.swing_point).is_peak)
                => LET price == Unwrap(out'.swing_point).price
                       replace ==
                         /\ PullbackEnough(Unwrap(det.peak1).price, price)
                         /\ IsSome(det.trough_low) => price < Unwrap(det.trough_low)
                   IN  AfterSwing.trough_low
                         = IF replace THEN Some(price) ELSE det.trough_low]_vars

\* C32 witness: a trough swing point with enough pullback took the detector
\* from PeakFound to TroughFound.
C32_Witness ==
    /\ Processed
    /\ hist.prev_state = "PeakFound"
    /\ det.state = "TroughFound"
    /\ IsSome(out.swing_point) /\ ~Unwrap(out.swing_point).is_peak
    /\ PullbackEnough(Unwrap(det.peak1).price, Unwrap(out.swing_point).price)

\* A trough swing point in PeakFound had too little pullback and was ignored.
C32_ShallowIgnored ==
    /\ Processed
    /\ hist.prev_state = "PeakFound" /\ det.state = "PeakFound"
    /\ IsSome(out.swing_point) /\ ~Unwrap(out.swing_point).is_peak
    /\ ~PullbackEnough(Unwrap(det.peak1).price, Unwrap(out.swing_point).price)

\* test_swing_detector_peak, prices in tenths: rev_atr_mult 1.0, ATR 2.0,
\* candles (100, 98, 99), (102, 99, 101), (105, 101, 104), (104, 102, 102.5).
\* The test reads the fourth result only; the second call returns a peak at
\* 102 and the third a trough at 99.
ScenarioB ==
    LET atr == [num |-> 20, den |-> 1]
        r1  == SwingUpdate(SwingNew(10), [high |-> 1000, low |-> 980, close |-> 990], atr)
        r2  == SwingUpdate(r1.swing, [high |-> 1020, low |-> 990, close |-> 1010], atr)
        r3  == SwingUpdate(r2.swing, [high |-> 1050, low |-> 1010, close |-> 1040], atr)
        r4  == SwingUpdate(r3.swing, [high |-> 1040, low |-> 1020, close |-> 1025], atr)
    IN  /\ r1.out = None
        /\ r4.out = Some([price |-> 1050, is_peak |-> TRUE])
        /\ r4.swing.trend = "Down" /\ r4.swing.swing_low = 1020

\* C33: a peak returned by SwingDetector::update is the highest high of the
\* candles from the one the previous point was returned on (or the first
\* candle) through this one, and lies at least rev_atr_mult * atr above this
\* candle's low; the same call flips the trend from Up to Down and seeds the
\* swing low with this candle's low.  A trough is the lowest low of those
\* candles, lies at least rev_atr_mult * atr below this candle's high, flips
\* the trend from Down to Up and seeds the swing high with this candle's
\* high.  The detector's unit test returns the peak 105.
C33_SwingPointIsExtreme ==
    [][(swHist'.calls = swHist.calls + 1 /\ IsSome(swOut'))
        => LET p == Unwrap(swOut') IN
           /\ ScenarioB
           /\ p.is_peak
                => /\ p.price = swHist'.since_high
                   /\ ReachesRev(p.price - swHist'.low, rev_atr, swHist'.atr)
                   /\ sw.trend = "Up" /\ sw'.trend = "Down"
                   /\ sw'.swing_low = swHist'.low
           /\ ~p.is_peak
                => /\ p.price = swHist'.since_low
                   /\ ReachesRev(swHist'.high - p.price, rev_atr, swHist'.atr)
                   /\ sw.trend = "Down" /\ sw'.trend = "Up"
                   /\ sw'.swing_high = swHist'.high]_vars

\* C33 witness: a peak returned after a trough, at a high made on a candle
\* before the one that confirmed it, above the high of the candle the trough
\* was returned on.
C33_Witness ==
    /\ IsSome(swOut) /\ Unwrap(swOut).is_peak
    /\ swHist.emitted >= 3
    /\ Unwrap(swOut).price = swHist.since_high
    /\ Unwrap(swOut).price > swHist.high
    /\ sw.trend = "Down" /\ sw.swing_low = swHist.low
    /\ swHist.atr.num > 0

\* A trough returned at a low made on a candle before the one that confirmed
\* it.
C33_TroughWitness ==
    /\ IsSome(swOut) /\ ~Unwrap(swOut).is_peak
    /\ Unwrap(swOut).price = swHist.since_low
    /\ Unwrap(swOut).price < swHist.low
    /\ sw.trend = "Up" /\ sw.swing_high = swHist.high

\* C34: a call that returns a Confirmation alert was preceded, on an earlier
\* call, by one that returned an EarlyWarning alert for the same peak1: the
\* instance has had its early warning before the call, the call leaves peak1
\* as it was and started in Forming with early_warning_sent set; the one
\* alert a call returns is never both.
C34_ConfirmationAfterWarning ==
    [][(Fed /\ IsAlert(out'.alert, "Confirmation"))
        => /\ hist.ew_instance = 1
           /\ hist'.ew_instance = 1
           /\ hist'.instances = hist.instances
           /\ det'.peak1 = det.peak1 /\ IsSome(det.peak1)
           /\ det.state = "Forming" /\ det.early_warning_sent
           /\ ~IsAlert(out'.alert, "EarlyWarning")]_vars

\* C34 witness: a Confirmation alert returned in an instance that had returned
\* its EarlyWarning alert on an earlier candle.
C34_Witness ==
    /\ IsAlert(out.alert, "Confirmation")
    /\ det.state = "Confirmed"
    /\ hist.prev_state = "Forming"
    /\ hist.ew_instance = 1
    /\ Unwrap(det.peak1).candle_idx < det.candle_count

\* C35: a call that starts in PeakFound, TroughFound or Forming leaves peak1
\* (price and candle index) as it was; a call that changes peak1 started in
\* Watching, Confirmed or Invalidated, had a peak swing point, and sets peak1
\* to that point's price and the call's candle index.
C35_Peak1Fixed ==
    [][Fed
        => /\ det.state \in Tracked => det'.peak1 = det.peak1
           /\ det'.peak1 # det.peak1
                => /\ det.state \in {"Watching", "Confirmed", "Invalidated"}
                   /\ IsSome(out'.swing_point)
                   /\ Unwrap(out'.swing_point).is_peak
                   /\ det'.peak1 = Some([price |-> Unwrap(out'.swing_point).price,
                                         candle_idx |-> det'.candle_count])]_vars

\* C35 witness: a peak swing point above peak1 arrived in PeakFound and peak1
\* stayed as it was.
C35_Witness ==
    /\ Processed
    /\ hist.prev_state = "PeakFound"
    /\ IsSome(out.swing_point) /\ Unwrap(out.swing_point).is_peak
    /\ IsSome(det.peak1)
    /\ Unwrap(out.swing_point).price > Unwrap(det.peak1).price
    /\ Unwrap(det.peak1).candle_idx < det.candle_count

\* A peak swing point arriving in Invalidated replaced peak1.
C35_Reassigned ==
    /\ Processed
    /\ hist.prev_state = "Invalidated"
    /\ hist.instances >= 2
    /\ AssignedPeak1(det)

\* C36: the detector's data agrees with its state.  Watching: peak1, trough
\* and peak2 are none.  PeakFound: peak1 is set, trough and peak2 are none.
\* TroughFound, Forming, Confirmed: peak1 and trough are set.  TroughFound: no
\* early warning was sent for this instance; Forming, Confirmed: one was.
\* Confirmed: peak2 is set.
C36_DataMatchesState ==
    /\ det.state = "Watching"
         => ~IsSome(det.peak1) /\ ~IsSome(det.trough_low) /\ ~IsSome(det.peak2)
    /\ det.state = "PeakFound"
         => IsSome(det.peak1) /\ ~IsSome(det.trough_low) /\ ~IsSome(det.peak2)
    /\ det.state \in {"TroughFound", "Forming", "Confirmed"}
         => IsSome(det.peak1) /\ IsSome(det.trough_low)
    /\ det.state = "TroughFound"
         => ~det.early_warning_sent /\ hist.ew_instance = 0
    /\ det.state \in {"Forming", "Confirmed"}
         => det.early_warning_sent /\ hist.ew_instance = 1
    /\ det.state = "Confirmed" => IsSome(det.peak2)

\* C36 witness: a second pattern instance, begun after the first had sent its
\* early warning, stands in TroughFound with none sent.
C36_Witness ==
    /\ Processed
    /\ det.state = "TroughFound"
    /\ hist.instances >= 2
    /\ hist.ew_total >= 1
    /\ ~det.early_warning_sent

\* A detector in Confirmed, with peak1, trough and peak2 set.
C36_ConfirmedWitness ==
    /\ Processed
    /\ det.state = "Confirmed"
    /\ IsSome(det.peak1) /\ IsSome(det.trough_low) /\ IsSome(det.peak2)

\* The snapshot sent last.
LastSent(ch) == ch.buf[Len(ch.buf)].value

\* C37: a GET /double-top response is the complete list one publish wrote, or
\* the empty list the store starts with: while a request holds the read lock
\* the store does not change, and the response is the list the store held
\* when the lock was taken, whole.  The store changes only in a publish of
\* the monitor task, and the list a publish stores is the patterns of the
\* snapshot it sends.
C37_ReadsSeeOnePublish ==
    [][/\ \A r \in StatusReaders :
            /\ reads'[r].pc = "reading"
                 => /\ patterns' = reads'[r].seen
                    /\ published' = reads'[r].ver
                    /\ reads'[r].got = SubSeq(patterns', 1, Len(reads'[r].got))
            /\ reads'[r].pc = "done"
                 => /\ reads'[r].got = reads'[r].seen
                    /\ reads'[r].ver = 0 => reads'[r].got = << >>
                    /\ reads'[r].ver > 0
                         => Len(reads'[r].got) = Cardinality(Coins)
       /\ patterns' # patterns
            => published' = published + 1 /\ pc \in {"warmup", "cycle"}
       /\ published' # published
            => /\ published' = published + 1
               /\ pc \in {"warmup", "cycle"}
               /\ chan'.tail = chan.tail + 1
               /\ LastSent(chan').patterns = patterns'
               /\ reads' = reads]_vars

\* C37 witness: two requests hold the read lock at once, one half way through
\* its clone, over a list that a later publish than the first has written;
\* the monitor task is at a publish, which waits.
C37_Witness ==
    /\ reads["r1"].pc = "reading" /\ reads["r2"].pc = "reading"
    /\ Len(reads["r1"].got) = 1
    /\ published >= 2
    /\ patterns # << >>
    /\ pc = "cycle" /\ LoopDone(todo)
    /\ ~WriteLockFree

\* A response of a list that differs from the one the publish before wrote.
C37_ResponseOfLaterList ==
    /\ reads["r1"].pc = "done" /\ reads["r2"].pc = "done"
    /\ reads["r1"].ver + 1 = reads["r2"].ver
    /\ reads["r1"].ver >= 1
    /\ reads["r1"].got[2] # reads["r2"].got[2]
    /\ reads["r1"].got[1] = reads["r2"].got[1]

\* C38: after every process_candle, gated or not, the window holds
\* min(candle_count, history_window) candles, the last ones passed to
\* process_candle, oldest first; a call on a full window drops its first
\* candle and appends the new one.
C38_WindowIsFifo ==
    [][Fed
        => LET w == det'.candles
               n == Len(w)
           IN  /\ n <= history_window
               /\ n = MinOf(det'.candle_count, history_window)
               /\ \A age \in 1 .. n : w[n + 1 - age].close = hist'.recent[age]
               /\ Len(det.candles) = history_window
                    => w = Append(Tail(det.candles),
                                  [close |-> LastCandle'.close])
               /\ Len(det.candles) < history_window
                    => w = Append(det.candles, [close |-> LastCandle'.close])]_vars

\* C38 witness: a full window after more than history_window + 1 calls, on
\* candles that do not all close alike, its newest close not the one evicted
\* last.
C38_Witness ==
    /\ det.candle_count > history_window + 1
    /\ Len(det.candles) = history_window
    /\ det.candles[history_window].close = LastCandle.close
    /\ det.candles[1].close # det.candles[history_window].close
    /\ det.candles[1].close # det.candles[2].close

\* The window after a call that the warmup gate ended.
C38_GatedWitness ==
    /\ det.candle_count = 1
    /\ out.atr = None
    /\ Len(det.candles) = 1
    /\ det.candles[1].close = LastCandle.close

\* C39: the chart stream task sends its first event before its ticker's first
\* tick and then one event per tick: waiting for a tick it has sent one event
\* more than ticks completed, and inside a send_snapshot, or ended, as many.
\* An event is sent only by a send_snapshot whose fetch succeeded, to an open
\* receiver.  A send_snapshot that fails, in its fetch or on a closed
\* receiver, ends the task, and an ended task sends nothing and stays ended;
\* a task ended by its first send_snapshot has sent nothing.
C39_OneEventPerTickUntilFailure ==
    [][/\ chart'.pc = "wait" => chart'.sent = chart'.ticks + 1
       /\ chart'.pc \in {"fetch", "send", "ended"} => chart'.sent = chart'.ticks
       /\ chart'.sent # chart.sent
            => /\ chart'.sent = chart.sent + 1
               /\ chart.pc = "send" /\ chart.rx = "open"
               /\ chart'.last = "ok"
               /\ chart'.queue = Append(chart.queue, chart'.sent)
       /\ chart'.last \in {"fetch_err", "closed"} => chart'.pc = "ended"
       /\ chart'.pc = "ended" => chart'.last \in {"fetch_err", "closed"}
       /\ (chart.pc = "send" /\ chart.rx = "closed" /\ chart' # chart)
            => chart'.pc = "ended" /\ chart'.last = "closed"
       /\ chart.pc = "ended"
            => /\ chart'.pc = "ended"
               /\ chart'.sent = chart.sent
               /\ chart'.ticks = chart.ticks
               /\ chart'.last = chart.last
       /\ (chart'.pc = "ended" /\ chart'.ticks = 0) => chart'.sent = 0]_vars

\* C39 witness: a task that sent its first event, one more at each of two
\* ticks, and ended at the third tick's send because the client had gone.
C39_Witness ==
    /\ chart.pc = "ended"
    /\ chart.last = "closed"
    /\ chart.ticks = 3
    /\ chart.sent = 3
    /\ chart.rx = "closed"

\* The first send_snapshot's fetch failed: no event, the task ended, the
\* client still there.
C39_InitialFails ==
    /\ chart.pc = "ended"
    /\ chart.last = "fetch_err"
    /\ chart.ticks = 0
    /\ chart.sent = 0
    /\ chart.rx = "open"

\* Two events sent before any poll interval has passed: the first, and the
\* one of the ticker's first tick.
C39_TwoAtOnce ==
    /\ chart.pc = "wait"
    /\ chart.sent = 2
    /\ chart.waited = 0

\* A send waiting on a full channel.
C39_SendWaits ==
    /\ chart.pc = "send"
    /\ chart.rx = "open"
    /\ Len(chart.queue) = ChartCapacity

\* normalize_candles_sets_missing_fields: a candle without interval and
\* symbol, normalized for BTC and 1m.
NormTestCandle ==
    [open_time |-> 1, close_time |-> 2, open |-> 10, high |-> 20, low |-> 5,
     close |-> 15, volume |-> 100, num_trades |-> 5,
     interval |-> None, symbol |-> None]

\* The fields of a candle other than interval and symbol.
NormOtherFields(c) ==
    << c.open_time, c.close_time, c.open, c.high, c.low, c.close, c.volume,
       c.num_trades >>

\* C40: normalize_candles keeps the list's length and each candle's other
\* fields; a candle's interval is the one it had, or the requested one if it
\* had none, and the same for its symbol; a second call, whatever it
\* requests, changes nothing.  The unit test's candle gets 1m and BTC.
C40_NormalizeFillsMissing ==
    (IsSome(norm) /\ IsSome(Unwrap(norm).once))
      => LET n == Unwrap(norm)
             before == n.candles
             after == Unwrap(n.once)
         IN  /\ Len(after) = Len(before)
             /\ \A i \in 1 .. Len(before) :
                  /\ NormOtherFields(after[i]) = NormOtherFields(before[i])
                  /\ IsSome(before[i].interval)
                       => after[i].interval = before[i].interval
                  /\ ~IsSome(before[i].interval)
                       => after[i].interval = Some(n.interval)
                  /\ IsSome(before[i].symbol)
                       => after[i].symbol = before[i].symbol
                  /\ ~IsSome(before[i].symbol)
                       => after[i].symbol = Some(n.coin)
             /\ IsSome(n.twice) => Unwrap(n.twice).candles = after
             /\ LET t == normalize_candles(<< NormTestCandle >>, "BTC", "1m")[1]
                IN  t.interval = Some("1m") /\ t.symbol = Some("BTC")

\* C40 witness: a list of one candle lacking both fields and one carrying
\* other values than the requested ones, normalized, and normalized again for
\* another coin and interval.
C40_Witness ==
    /\ IsSome(norm) /\ IsSome(Unwrap(norm).once) /\ IsSome(Unwrap(norm).twice)
    /\ LET n == Unwrap(norm) IN
       /\ Len(n.candles) = 2
       /\ ~IsSome(n.candles[1].interval) /\ ~IsSome(n.candles[1].symbol)
       /\ IsSome(n.candles[2].interval) /\ n.candles[2].interval # Some(n.interval)
       /\ IsSome(n.candles[2].symbol) /\ n.candles[2].symbol # Some(n.coin)
       /\ Unwrap(n.once)[2] = n.candles[2]
       /\ Unwrap(n.once)[1] # n.candles[1]
       /\ Unwrap(n.twice).coin # n.coin
       /\ Unwrap(n.twice).interval # n.interval

====
